---- MODULE Spec2Model ----
(***************************************************************************)
(* create-xeikit-app: the project creation workflow                        *)
(* (executeProjectCreationWorkflow, src/src/cli/command.ts) and the step   *)
(* functions it awaits, as one state machine.                              *)
(*                                                                         *)
(* A JavaScript string is a sequence of tokens (indivisible substrings):   *)
(* "" is <<>>, " my-app" is <<" ", "my-app">>, and a template literal is   *)
(* the concatenation (\o) of its parts.  A value whose type the code       *)
(* inspects (typeof, === undefined, truthiness) is a tagged record.        *)
(***************************************************************************)
EXTENDS Integers, Sequences, FiniteSets, TLC

(* ------------------------------------------------------------------ *)
(* JavaScript values                                                  *)
(* ------------------------------------------------------------------ *)
Undef == [t |-> "undefined"]

Null == [t |-> "null"]

Bool(b) == [t |-> "boolean", v |-> b]

Str(s) == [t |-> "string", v |-> s]

Num(n) == [t |-> "number", v |-> n]

\* new Error(message)
Error(m) == [t |-> "Error", message |-> m]

\* typeof x === 'string'
IsString(x) == x.t = "string"

\* typeof x === 'boolean'
IsBoolean(x) == x.t = "boolean"

\* x instanceof Error
InstanceOfError(x) == x.t = "Error"

\* JavaScript truthiness of a tagged value: !!x
Truthy(x) ==
    CASE x.t = "undefined" -> FALSE
      [] x.t = "null" -> FALSE
      [] x.t = "boolean" -> x.v
      [] x.t = "string" -> x.v # <<>>
      [] OTHER -> TRUE

(* ------------------------------------------------------------------ *)
(* String.prototype helpers                                           *)
(* ------------------------------------------------------------------ *)
\* the white space String.prototype.trim removes
Whitespace == {" ", "\t", "\n"}

IsWhitespace(tok) == tok \in Whitespace

RECURSIVE TrimStart(_)
TrimStart(s) ==
    IF s = <<>> THEN <<>>
    ELSE IF IsWhitespace(Head(s)) THEN TrimStart(Tail(s)) ELSE s

RECURSIVE TrimEnd(_)
TrimEnd(s) ==
    IF s = <<>> THEN <<>>
    ELSE IF IsWhitespace(s[Len(s)]) THEN TrimEnd(SubSeq(s, 1, Len(s) - 1)) ELSE s

\* s.trim()
Trim(s) == TrimEnd(TrimStart(s))

\* s.includes(sub)
Includes(s, sub) ==
    \E i \in 1..(Len(s) - Len(sub) + 1) : SubSeq(s, i, i + Len(sub) - 1) = sub

\* s.split(sep), sep a single token
RECURSIVE Split(_, _)
Split(s, sep) ==
    IF \A i \in 1..Len(s) : s[i] # sep THEN <<s>>
    ELSE LET k == CHOOSE i \in 1..Len(s) : s[i] = sep /\ \A j \in 1..(i - 1) : s[j] # sep
         IN <<SubSeq(s, 1, k - 1)>> \o Split(SubSeq(s, k + 1, Len(s)), sep)

\* segs.join(sep)
RECURSIVE Join(_, _)
Join(segs, sep) ==
    IF segs = <<>> THEN <<>>
    ELSE IF Len(segs) = 1 THEN segs[1]
    ELSE segs[1] \o <<sep>> \o Join(Tail(segs), sep)

(* ------------------------------------------------------------------ *)
(* pathe: resolve and relative (POSIX paths)                          *)
(* ------------------------------------------------------------------ *)
\* process.cwd()
ProcessCwd == <<"/", "work">>

IsAbsolute(p) == p # <<>> /\ Head(p) = "/"

\* drops "" and "." segments, and lets ".." remove the segment before it
RECURSIVE NormalizeSegments(_, _)
NormalizeSegments(segs, acc) ==
    IF segs = <<>> THEN acc
    ELSE LET seg == Head(segs)
         IN IF seg = <<>> \/ seg = <<".">> THEN NormalizeSegments(Tail(segs), acc)
            ELSE IF seg = <<"..">>
                 THEN NormalizeSegments(Tail(segs),
                        IF acc = <<>> THEN acc ELSE SubSeq(acc, 1, Len(acc) - 1))
                 ELSE NormalizeSegments(Tail(segs), Append(acc, seg))

\* the segments of the absolute path that resolve(base, p) names
ResolvedSegments(base, p) ==
    LET raw == IF IsAbsolute(p) THEN p
               ELSE IF IsAbsolute(base) THEN base \o <<"/">> \o p
               ELSE ProcessCwd \o <<"/">> \o base \o <<"/">> \o p
    IN NormalizeSegments(Split(raw, "/"), <<>>)

\* resolve(cwd, dir)
resolvePath(cwd, dir) == <<"/">> \o Join(ResolvedSegments(cwd, dir), "/")

RECURSIVE StripCommon(_, _)
StripCommon(from, to) ==
    IF from # <<>> /\ to # <<>> /\ Head(from) = Head(to)
    THEN StripCommon(Tail(from), Tail(to))
    ELSE <<from, to>>

\* relative(from, to)
relative(from, to) ==
    LET rest == StripCommon(ResolvedSegments(<<"/">>, from), ResolvedSegments(<<"/">>, to))
        ups == [i \in 1..Len(rest[1]) |-> <<"..">>]
    IN Join(ups \o rest[2], "/")

\* a || b on strings
OrElse(a, b) == IF a # <<>> THEN a ELSE b

(* ------------------------------------------------------------------ *)
(* consola/utils colors                                               *)
(* ------------------------------------------------------------------ *)
cyan(s) == <<"\\x1b[36m">> \o s \o <<"\\x1b[39m">>

dim(s) == <<"\\x1b[2m">> \o s \o <<"\\x1b[22m">>

(* ------------------------------------------------------------------ *)
(* Result type (src/src/types/result.ts)                              *)
(* ------------------------------------------------------------------ *)
Ok(data) == [success |-> TRUE, data |-> data]

Err(error) == [success |-> FALSE, error |-> error]

isOk(r) == r.success

\* catch (error) { return Err(error instanceof Error ? error : new Error(fallback)) }
CaughtAsError(thrown, fallback) ==
    IF InstanceOfError(thrown) THEN thrown ELSE Error(fallback)

\* Error.prototype.toString()
ErrorToString(e) ==
    IF e.message = <<>> THEN <<"Error">> ELSE <<"Error", ": ">> \o e.message

(* ------------------------------------------------------------------ *)
(* Constants (utils/constants.ts)                                     *)
(* ------------------------------------------------------------------ *)
DEFAULT_REGISTRY == <<"https://raw.githubusercontent.com/xeikit/starter-templates/main/templates">>

DEFAULT_TEMPLATE_NAME == <<"nuxt4">>

PACKAGE_MANAGER_OPTIONS == << <<"npm">>, <<"yarn">>, <<"pnpm">>, <<"bun">>, <<"deno">> >>

TEMPLATE_OPTIONS ==
    << [label |-> <<"Nuxt4 + Hono">>, value |-> <<"nuxt4">>],
       [label |-> <<"TanStack Start">>, value |-> <<"tanstack-start">>] >>

Range(f) == {f[i] : i \in DOMAIN f}

\* PACKAGE_MANAGER_OPTIONS.includes(name)
IsPackageManager(name) == name \in Range(PACKAGE_MANAGER_OPTIONS)

(* ------------------------------------------------------------------ *)
(* Messages                                                           *)
(* ------------------------------------------------------------------ *)
DirectoryPromptMessage == <<"Where would you like to create your project?">>

TemplatePromptMessage == <<"Choose a template">>

PackageManagerPromptMessage == <<"Which package manager would you like to use?">>

InstallPromptMessage == <<"Do you want to install dependencies?">>

GitPromptMessage == <<"Initialize git repository?">>

PleaseSpecify == <<"Please specify">>

(* ------------------------------------------------------------------ *)
(* Pure step functions                                                *)
(* ------------------------------------------------------------------ *)
\* (mutation) the argument is returned as given
validateDirectoryArg_NoTrim(dirArg) ==
    IF ~Truthy(dirArg) \/ Trim(dirArg.v) = <<>>
    THEN Err(<<"Directory argument is empty">>)
    ELSE Ok(dirArg.v)

\* cli/prompts.ts
validateDirectoryArg(dirArg) ==
    IF ~Truthy(dirArg) \/ Trim(dirArg.v) = <<>>
    THEN Err(<<"Directory argument is empty">>)
    ELSE Ok(Trim(dirArg.v))

createProjectDirectoryPromptConfig ==
    [placeholder |-> <<".", "/", "my-project">>, type |-> "text",
     default |-> <<".", "/", "my-project">>, cancel |-> "reject"]

\* utils/common.ts
createDirectoryExistsMessage(path) ==
    <<"The directory ">> \o cyan(OrElse(relative(ProcessCwd, path), path))
        \o <<" already exists. Please choose a different directory.">>

\* (mutation) the existence check never finds the target
checkDirectoryExists_Never(files, path) == FALSE

checkDirectoryExists(files, path) == path \in files

validateDirectoryDoesNotExist(files, path) ==
    IF checkDirectoryExists(files, path) THEN Err(createDirectoryExistsMessage(path)) ELSE Ok(path)

\* utils/template.ts
\* (mutation) the argument is trimmed like the directory argument
validateTemplateArg_Trimmed(templateArg) ==
    IF ~Truthy(templateArg) \/ Trim(templateArg.v) = <<>>
    THEN Err(<<"Template argument is empty or undefined">>)
    ELSE Ok(Trim(templateArg.v))

validateTemplateArg(templateArg) ==
    IF ~Truthy(templateArg) \/ Trim(templateArg.v) = <<>>
    THEN Err(<<"Template argument is empty or undefined">>)
    ELSE Ok(templateArg.v)

\* (mutation) an empty answer is not replaced by the default template name
validateTemplatePromptResult_NoDefault(template) ==
    IF ~IsString(template)
    THEN Err(PleaseSpecify \o <<" a template name.">>)
    ELSE Ok(template.v)

validateTemplatePromptResult(template) ==
    IF ~IsString(template)
    THEN Err(PleaseSpecify \o <<" a template name.">>)
    ELSE Ok(OrElse(template.v, DEFAULT_TEMPLATE_NAME))

\* utils/package-manager.ts
\* (mutation) the name before the '/' is returned whatever it is
parsePackageManagerFromUserAgent_Unchecked(userAgent) == Str(Split(userAgent, "/")[1])

parsePackageManagerFromUserAgent(userAgent) ==
    LET name == Split(userAgent, "/")[1]
    IN IF IsPackageManager(name) THEN Str(name) ELSE Undef

detectCurrentPackageManager(environment) ==
    LET userAgent == environment.npm_config_user_agent
    IN IF Truthy(userAgent) THEN parsePackageManagerFromUserAgent(userAgent.v) ELSE Undef

\* (mutation) every non-empty argument is accepted
validatePackageManagerArg_Any(packageManagerArg) ==
    IF ~Truthy(packageManagerArg)
    THEN Err(<<"Package manager argument is empty">>)
    ELSE Ok(packageManagerArg.v)

validatePackageManagerArg(packageManagerArg) ==
    IF ~Truthy(packageManagerArg)
    THEN Err(<<"Package manager argument is empty">>)
    ELSE IF ~IsPackageManager(packageManagerArg.v)
         THEN Err(<<"Invalid package manager: ">> \o packageManagerArg.v)
         ELSE Ok(packageManagerArg.v)

createPackageManagerSelectOptions(currentPackageManager) ==
    [i \in DOMAIN PACKAGE_MANAGER_OPTIONS |->
        [label |-> PACKAGE_MANAGER_OPTIONS[i],
         value |-> PACKAGE_MANAGER_OPTIONS[i],
         hint |-> IF currentPackageManager = Str(PACKAGE_MANAGER_OPTIONS[i])
                  THEN Str(<<"current">>) ELSE Undef]]

validateInstallationPromptResult(answer) ==
    IF ~IsBoolean(answer)
    THEN Err(PleaseSpecify \o <<" whether to install dependencies.">>)
    ELSE Ok(answer)

createInstallationConfig(dir, packageManager) ==
    [cwd |-> dir, packageManager |-> [name |-> packageManager, command |-> packageManager]]

\* (mutation) the parameter is never taken as a decision
validateGitInitParam_AlwaysUndefined(shouldInitParam) ==
    Err(<<"Git initialization parameter is undefined">>)

\* utils/git.ts
validateGitInitParam(shouldInitParam) ==
    IF shouldInitParam = Undef
    THEN Err(<<"Git initialization parameter is undefined">>)
    ELSE Ok(shouldInitParam)

createGitInitArgs(dir) == << <<"init">>, dir >>

\* cli/command.ts
\* (mutation) the download path is the directory as typed, not resolved against cwd
createProjectConfig_Unresolved(cwd, dir) ==
    [projectDir |-> dir,
     templateDownloadPath |-> dir,
     cwd |-> resolvePath(cwd, <<>>)]

createProjectConfig(cwd, dir) ==
    [projectDir |-> dir,
     templateDownloadPath |-> resolvePath(cwd, dir),
     cwd |-> resolvePath(cwd, <<>>)]

\* (mutation) the install line is shown when the dependencies were installed
createFinalInstructions_Inverted(dir, install, packageManager, templateSource) ==
    [successMessage |-> <<"\n", "Starter project has been created with the '">> \o templateSource
                            \o <<"' template.">>,
     nextStepsTitle |-> <<"\n", "Next steps:", "\n">>,
     changeDirectory |-> <<"cd ">> \o cyan(dir),
     installCommand |-> IF Truthy(install) THEN Str(cyan(packageManager) \o <<" install">>)
                        ELSE Null,
     devCommand |-> cyan(packageManager) \o <<" run dev">>,
     happyCoding |-> <<"\n", "Happy coding! ">> \o dim(<<"(Press Ctrl+C to stop the dev server)">>)]

createFinalInstructions(dir, install, packageManager, templateSource) ==
    [successMessage |-> <<"\n", "Starter project has been created with the '">> \o templateSource
                            \o <<"' template.">>,
     nextStepsTitle |-> <<"\n", "Next steps:", "\n">>,
     changeDirectory |-> <<"cd ">> \o cyan(dir),
     installCommand |-> IF ~Truthy(install) THEN Str(cyan(packageManager) \o <<" install">>)
                        ELSE Null,
     devCommand |-> cyan(packageManager) \o <<" run dev">>,
     happyCoding |-> <<"\n", "Happy coding! ">> \o dim(<<"(Press Ctrl+C to stop the dev server)">>)]

(* ------------------------------------------------------------------ *)
(* Inputs of one run                                                  *)
(* ------------------------------------------------------------------ *)
DirArgs == {Str(<<>>), Str(<<" ", "my-app", " ">>)}

TemplateArgs == {Undef, Str(<<>>), Str(<<" ">>), Str(<<" ", "custom">>)}

InstallArgs == {Undef, Bool(TRUE), Bool(FALSE)}

GitInitArgs == {Undef, Bool(TRUE), Bool(FALSE)}

PackageManagerArgs == {Undef, Str(<<>>), Str(<<"pnpm">>), Str(<<"pip">>)}

UserAgents == {Undef, Str(<<"pnpm", "/", "10.11.0", " ", "npm", "/", "?">>), Str(<<"unknown", "/", "1.0.0">>)}

\* paths that may exist before the run, besides the working directory
InitialPaths == {<<"/", "work", "/", "my-app">>}

\* what the user may type or pick
DirectoryAnswers == {<<".", "/", "my-project">>, <<>>, <<" ">>}

\* the result of the template prompt is typed unknown: an option, '', a blank string or no string
TemplateAnswers == {Str(<<"tanstack-start">>), Str(<<>>), Str(<<" ">>), Undef}

PackageManagerAnswers == {<<"npm">>, <<"bun">>}

ConfirmAnswers == {Bool(TRUE), Bool(FALSE), Str(<<"yes">>)}

GitAnswers == {Bool(TRUE), Bool(FALSE)}

\* what a rejected prompt or a failing collaborator may throw
Thrown == {Error(<<"git not found">>), Error(<<>>), Str(<<"boom">>)}

\* what the install confirmation can reject with: also an error whose message contains
\* the words confirmDependenciesInstallation looks for
InstallPromptThrown == Thrown \cup {Error(<<"Please specify", " a terminal.">>)}

\* the provenance string the download reports
TemplateSources == {<<"registry:xeikit">>}

(* ------------------------------------------------------------------ *)
(* State                                                              *)
(* ------------------------------------------------------------------ *)
VARIABLES
    args,                    \* WorkflowArgs
    env,                     \* process.env
    fs,                      \* the paths that exist on disk
    pc,                      \* where the workflow is: the step to call next, the pending await, "returned" or "exited"
    projectDir,              \* const projectDir
    config,                  \* const config
    templateName,            \* const templateName
    template,                \* const template (DownloadTemplateResult)
    selectedPackageManager,  \* const selectedPackageManager
    shouldInstall,           \* const shouldInstall
    log,                     \* what consola wrote, in order: [level, text]
    calls,                   \* the collaborator invocations, in order: [op, args]
    started,                 \* the step functions called, in order
    completed,               \* the step functions that returned, in order
    outcomes,                \* how the collaborator invocations ended, in order: [op, ok, value]
    exitCode,                \* process.exit's argument, Undef while the process runs
    result,                  \* the workflow's returned Result, Undef until it returns
    runOutcome,              \* how mainCommand.run ended, Undef until it does
    input,                   \* a function applied on its own: [fn, arg], Undef in a workflow run
    output                   \* what that function returned (or threw), Undef until it is applied

vars == <<args, env, fs, pc, projectDir, config, templateName, template,
          selectedPackageManager, shouldInstall, log, calls, outcomes, started,
          completed, exitCode, result, outcomes, runOutcome, input, output>>

\* the variables a workflow run leaves alone
harness == <<runOutcome, input, output>>

locals == <<projectDir, config, templateName, template, selectedPackageManager, shouldInstall>>

Init ==
    /\ args \in [cwd : {Str(<<".">>)}, dir : DirArgs, template : TemplateArgs,
                 install : InstallArgs, gitInit : GitInitArgs,
                 packageManager : PackageManagerArgs]
    /\ env \in [npm_config_user_agent : UserAgents]
    /\ fs \in {{ProcessCwd} \cup extra : extra \in SUBSET InitialPaths}
    /\ pc = "getProjectDirectory"
    /\ projectDir = <<>>
    /\ config = [projectDir |-> <<>>, templateDownloadPath |-> <<>>, cwd |-> <<>>]
    /\ templateName = <<>>
    /\ template = [dir |-> <<>>, source |-> <<>>]
    /\ selectedPackageManager = <<>>
    /\ shouldInstall = Undef
    /\ log = <<>>
    /\ calls = <<>>
    /\ outcomes = <<>>
    /\ started = <<>>
    /\ completed = <<>>
    /\ exitCode = Undef
    /\ result = Undef
    /\ runOutcome = Undef
    /\ input = Undef
    /\ output = Undef

(* ------------------------------------------------------------------ *)
(* Building blocks of the actions                                     *)
(* ------------------------------------------------------------------ *)
\* (mutation) the package manager is selected before the template is downloaded
WorkflowOrder_PackageManagerFirst ==
    <<"getProjectDirectory", "displayProjectCreationInfo", "verifyDirectoryDoesNotExist",
      "selectTemplate", "selectPackageManager", "downloadTemplateAndHandleErrors",
      "confirmDependenciesInstallation", "installDependenciesIfRequested",
      "initializeGitIfRequested", "displayFinalInstructions">>

\* (mutation) the existence check comes before the creation message
WorkflowOrder_VerifyFirst ==
    <<"getProjectDirectory", "verifyDirectoryDoesNotExist", "displayProjectCreationInfo",
      "selectTemplate", "downloadTemplateAndHandleErrors",
      "selectPackageManager", "confirmDependenciesInstallation", "installDependenciesIfRequested",
      "initializeGitIfRequested", "displayFinalInstructions">>

\* the body of executeProjectCreationWorkflow's try block, statement by statement
WorkflowOrder ==
    <<"getProjectDirectory", "displayProjectCreationInfo", "verifyDirectoryDoesNotExist",
      "selectTemplate", "downloadTemplateAndHandleErrors",
      "selectPackageManager", "confirmDependenciesInstallation", "installDependenciesIfRequested",
      "initializeGitIfRequested", "displayFinalInstructions">>

\* the statement that follows `step` in the try block
StepAfter(step) ==
    LET i == CHOOSE k \in DOMAIN WorkflowOrder : WorkflowOrder[k] = step
    IN IF i < Len(WorkflowOrder) THEN WorkflowOrder[i + 1] ELSE "return"

\* consola.<level>(text)
Logged(level, text) == [level |-> level, text |-> text]

\* a collaborator invocation
Call(op, arguments) == [op |-> op, args |-> arguments]

\* collaborator call `op` resolved with `value`
Resolved(op, value) == [op |-> op, ok |-> TRUE, value |-> value]

\* collaborator call `op` rejected (threw) `thrown`
Rejected(op, thrown) == [op |-> op, ok |-> FALSE, value |-> thrown]

\* the workflow calls step function `step`
Enter(step) == /\ pc = step
               /\ started' = Append(started, step)

\* step function `step` returns to the workflow, which goes on to the next statement
Return(step) == /\ completed' = Append(completed, step)
                /\ pc' = StepAfter(step)
                /\ UNCHANGED exitCode

\* (mutation) the awaited call is never answered: its promise is lost
Await_Lost(op) == /\ pc' = "lost"
                  /\ UNCHANGED <<completed, exitCode>>

\* the step function awaits collaborator call `op`
Await(op) == /\ pc' = op
             /\ UNCHANGED <<completed, exitCode>>

\* process.exit(code): nothing of the workflow runs afterwards
Exit(code) == /\ pc' = "exited"
              /\ exitCode' = Num(code)
              /\ UNCHANGED completed

\* (mutation) process.exit does not end the process: after the message the run goes on to
\* its return statement
handleError_Returns(error) == /\ log' = Append(log, Logged("error", ErrorToString(error)))
                              /\ pc' = "return"
                              /\ UNCHANGED <<completed, exitCode>>

\* handleError(error): consola.error(error.toString()); process.exit(1)
handleError(error) == /\ log' = Append(log, Logged("error", ErrorToString(error)))
                      /\ Exit(1)

(* ------------------------------------------------------------------ *)
(* Step 1: project directory                                          *)
(* ------------------------------------------------------------------ *)
\* getProjectDirectory(args.dir), up to its await of the prompt
GetProjectDirectory ==
    /\ Enter("getProjectDirectory")
    /\ LET argValidation == validateDirectoryArg(args.dir)
       IN IF isOk(argValidation)
          THEN /\ projectDir' = argValidation.data
               /\ Return("getProjectDirectory")
               /\ UNCHANGED calls
          ELSE /\ calls' = Append(calls, Call("consola.prompt",
                               <<DirectoryPromptMessage, createProjectDirectoryPromptConfig>>))
               /\ Await("promptForProjectDirectory")
               /\ UNCHANGED projectDir
    /\ UNCHANGED <<args, env, fs, config, templateName, template, selectedPackageManager,
                   shouldInstall, log, result, harness, outcomes>>

\* (mutation) the typed text is trimmed before it is returned
PromptForProjectDirectoryResolves_Trimmed ==
    /\ pc = "promptForProjectDirectory"
    /\ \E answer \in DirectoryAnswers :
          /\ Return("getProjectDirectory")
          /\ outcomes' = Append(outcomes, Resolved("promptForProjectDirectory", answer))
          /\ projectDir' = Trim(answer)
    /\ UNCHANGED <<args, env, fs, config, templateName, template, selectedPackageManager,
                   shouldInstall, log, calls, started, result, harness>>

\* the directory prompt resolves with the typed text
PromptForProjectDirectoryResolves ==
    /\ pc = "promptForProjectDirectory"
    /\ \E answer \in DirectoryAnswers :
          /\ Return("getProjectDirectory")
          /\ outcomes' = Append(outcomes, Resolved("promptForProjectDirectory", answer))
          /\ projectDir' = answer
    /\ UNCHANGED <<args, env, fs, config, templateName, template, selectedPackageManager,
                   shouldInstall, log, calls, started, result, harness>>

\* the directory prompt rejects (cancelled): getProjectDirectory exits
PromptForProjectDirectoryRejects ==
    /\ pc = "promptForProjectDirectory"
    /\ \E thrown \in Thrown :
          LET promptResult == Err(CaughtAsError(thrown, <<"Project directory prompt cancelled">>))
          IN /\ ~isOk(promptResult)
             /\ Exit(1)
             /\ outcomes' = Append(outcomes, Rejected("promptForProjectDirectory", thrown))
    /\ UNCHANGED <<args, env, fs, locals, log, calls, started, result, harness>>

\* const config = createProjectConfig(args.cwd, projectDir); displayProjectCreationInfo(config)
DisplayProjectCreationInfo ==
    /\ Enter("displayProjectCreationInfo")
    /\ config' = createProjectConfig(args.cwd.v, projectDir)
    /\ LET relativePath == OrElse(relative(config'.cwd, config'.templateDownloadPath),
                                  config'.templateDownloadPath)
       IN log' = Append(log, Logged("info",
                    <<"Creating a new project in ">> \o cyan(relativePath) \o <<".">>))
    /\ Return("displayProjectCreationInfo")
    /\ UNCHANGED <<args, env, fs, projectDir, templateName, template, selectedPackageManager,
                   shouldInstall, calls, result, harness, outcomes>>

\* verifyDirectoryDoesNotExist(config.templateDownloadPath)
VerifyDirectoryDoesNotExist ==
    /\ Enter("verifyDirectoryDoesNotExist")
    /\ LET check == validateDirectoryDoesNotExist(fs, config.templateDownloadPath)
       IN /\ calls' = Append(calls, Call("existsSync", <<config.templateDownloadPath>>))
          /\ outcomes' = Append(outcomes, Resolved("existsSync",
                              checkDirectoryExists(fs, config.templateDownloadPath)))
          /\ IF ~check.success
             THEN /\ log' = Append(log, Logged("error", check.error))
                  /\ Exit(1)
             ELSE /\ Return("verifyDirectoryDoesNotExist")
                  /\ UNCHANGED log
    /\ UNCHANGED <<args, env, fs, locals, result, harness>>

(* ------------------------------------------------------------------ *)
(* Step 2: template                                                   *)
(* ------------------------------------------------------------------ *)
\* (mutation) without a usable argument the default template is taken silently
SelectTemplate_DefaultSilently ==
    /\ Enter("selectTemplate")
    /\ LET argValidation == validateTemplateArg(args.template)
       IN /\ templateName' = IF isOk(argValidation) THEN argValidation.data
                             ELSE DEFAULT_TEMPLATE_NAME
          /\ Return("selectTemplate")
          /\ UNCHANGED calls
    /\ UNCHANGED <<args, env, fs, projectDir, config, template, selectedPackageManager,
                   shouldInstall, log, result, harness, outcomes>>

\* selectTemplate(args.template), up to its await of the prompt
SelectTemplate ==
    /\ Enter("selectTemplate")
    /\ LET argValidation == validateTemplateArg(args.template)
       IN IF isOk(argValidation)
          THEN /\ templateName' = argValidation.data
               /\ Return("selectTemplate")
               /\ UNCHANGED calls
          ELSE /\ calls' = Append(calls, Call("consola.prompt",
                               <<TemplatePromptMessage,
                                 [type |-> "select", options |-> TEMPLATE_OPTIONS, cancel |-> "reject"]>>))
               /\ Await("promptForTemplate")
               /\ UNCHANGED templateName
    /\ UNCHANGED <<args, env, fs, projectDir, config, template, selectedPackageManager,
                   shouldInstall, log, result, harness, outcomes>>

\* (mutation) a failed template prompt ends the process without a message
SelectTemplateAfterPrompt_Silent(promptResult) ==
    IF isOk(promptResult)
    THEN /\ templateName' = promptResult.data
         /\ Return("selectTemplate")
         /\ UNCHANGED log
    ELSE /\ Exit(1)
         /\ UNCHANGED <<templateName, log>>

\* what selectTemplate does with promptForTemplate's Result
SelectTemplateAfterPrompt(promptResult) ==
    IF isOk(promptResult)
    THEN /\ templateName' = promptResult.data
         /\ Return("selectTemplate")
         /\ UNCHANGED log
    ELSE /\ log' = Append(log, Logged("error",
                      OrElse(promptResult.error.message, <<"Template selection cancelled">>)))
         /\ Exit(1)
         /\ UNCHANGED templateName

\* the template prompt resolves with the picked value
PromptForTemplateResolves ==
    /\ pc = "promptForTemplate"
    /\ \E answer \in TemplateAnswers :
          LET validationResult == validateTemplatePromptResult(answer)
          IN /\ outcomes' = Append(outcomes, Resolved("promptForTemplate", answer))
             /\ SelectTemplateAfterPrompt(IF isOk(validationResult) THEN validationResult
                                          ELSE Err(Error(validationResult.error)))
    /\ UNCHANGED <<args, env, fs, projectDir, config, template, selectedPackageManager,
                   shouldInstall, calls, started, result, harness>>

\* the template prompt rejects (cancelled)
PromptForTemplateRejects ==
    /\ pc = "promptForTemplate"
    /\ \E thrown \in Thrown :
          /\ outcomes' = Append(outcomes, Rejected("promptForTemplate", thrown))
          /\ SelectTemplateAfterPrompt(Err(CaughtAsError(thrown, <<"Template selection cancelled">>)))
    /\ UNCHANGED <<args, env, fs, projectDir, config, template, selectedPackageManager,
                   shouldInstall, calls, started, result, harness>>

\* downloadTemplateAndHandleErrors(templateName, config.templateDownloadPath), up to the
\* await of giget's downloadTemplate inside downloadTemplateWithResult
DownloadTemplateAndHandleErrors ==
    /\ Enter("downloadTemplateAndHandleErrors")
    /\ calls' = Append(calls, Call("downloadTemplate",
                    <<templateName, [dir |-> config.templateDownloadPath, registry |-> DEFAULT_REGISTRY]>>))
    /\ Await("downloadTemplate")
    /\ UNCHANGED <<args, env, fs, locals, log, result, harness, outcomes>>

\* (mutation) a failed download is swallowed and the workflow goes on
DownloadAfterResult_Swallow(downloadResult) ==
    /\ template' = IF isOk(downloadResult) THEN downloadResult.data
                   ELSE [dir |-> config.templateDownloadPath, source |-> <<>>]
    /\ Return("downloadTemplateAndHandleErrors")
    /\ UNCHANGED log

\* (mutation) a failed download is attempted again
DownloadAfterResult_Retry(downloadResult) ==
    IF isOk(downloadResult)
    THEN /\ template' = downloadResult.data
         /\ Return("downloadTemplateAndHandleErrors")
         /\ UNCHANGED log
    ELSE /\ pc' = "downloadTemplateAndHandleErrors"
         /\ UNCHANGED <<template, log, completed, exitCode>>

\* (mutation) a failed download ends the process without a message
DownloadAfterResult_Silent(downloadResult) ==
    IF isOk(downloadResult)
    THEN /\ template' = downloadResult.data
         /\ Return("downloadTemplateAndHandleErrors")
         /\ UNCHANGED log
    ELSE /\ Exit(1)
         /\ UNCHANGED <<template, log>>

\* what downloadTemplateAndHandleErrors does with downloadTemplateWithResult's Result
DownloadAfterResult(downloadResult) ==
    IF isOk(downloadResult)
    THEN /\ template' = downloadResult.data
         /\ Return("downloadTemplateAndHandleErrors")
         /\ UNCHANGED log
    ELSE /\ handleError(downloadResult.error)
         /\ UNCHANGED template

\* the download resolves: the template's files are at dir
DownloadTemplateResolves ==
    /\ pc = "downloadTemplate"
    /\ \E source \in TemplateSources :
          LET downloaded == [dir |-> config.templateDownloadPath, source |-> source]
          IN /\ outcomes' = Append(outcomes, Resolved("downloadTemplate", downloaded))
             /\ fs' = fs \cup {downloaded.dir}
             /\ DownloadAfterResult(Ok(downloaded))
    /\ UNCHANGED <<args, env, projectDir, config, templateName, selectedPackageManager,
                   shouldInstall, calls, started, result, harness>>

\* the download throws
DownloadTemplateRejects ==
    /\ pc = "downloadTemplate"
    /\ \E thrown \in Thrown :
          /\ outcomes' = Append(outcomes, Rejected("downloadTemplate", thrown))
          /\ DownloadAfterResult(Err(CaughtAsError(thrown, <<"Template download failed">>)))
    /\ UNCHANGED <<args, env, fs, projectDir, config, templateName, selectedPackageManager,
                   shouldInstall, calls, started, result, harness>>

(* ------------------------------------------------------------------ *)
(* Step 3: package manager and installation                           *)
(* ------------------------------------------------------------------ *)
\* (mutation) without a valid argument the detected ambient manager is taken silently
SelectPackageManager_UseDetected ==
    /\ Enter("selectPackageManager")
    /\ LET argValidation == validatePackageManagerArg(args.packageManager)
           currentPackageManager == detectCurrentPackageManager(env)
       IN IF isOk(argValidation) \/ currentPackageManager # Undef
          THEN /\ selectedPackageManager' = IF isOk(argValidation) THEN argValidation.data
                                            ELSE currentPackageManager.v
               /\ Return("selectPackageManager")
               /\ UNCHANGED calls
          ELSE /\ calls' = calls \o
                      << Call("process.env", <<"npm_config_user_agent">>),
                         Call("consola.prompt",
                              <<PackageManagerPromptMessage,
                                [type |-> "select",
                                 options |-> createPackageManagerSelectOptions(currentPackageManager),
                                 initial |-> currentPackageManager,
                                 cancel |-> "reject"]>>) >>
               /\ Await("promptForPackageManager")
               /\ UNCHANGED selectedPackageManager
    /\ UNCHANGED <<args, env, fs, projectDir, config, templateName, template,
                   shouldInstall, log, result, harness, outcomes>>

\* (mutation) the ambient hint is read before the argument is looked at
SelectPackageManager_DetectFirst ==
    /\ Enter("selectPackageManager")
    /\ LET argValidation == validatePackageManagerArg(args.packageManager)
           currentPackageManager == detectCurrentPackageManager(env)
       IN IF isOk(argValidation)
          THEN /\ selectedPackageManager' = argValidation.data
               /\ Return("selectPackageManager")
               /\ calls' = Append(calls, Call("process.env", <<"npm_config_user_agent">>))
          ELSE /\ calls' = calls \o
                      << Call("process.env", <<"npm_config_user_agent">>),
                         Call("consola.prompt",
                              <<PackageManagerPromptMessage,
                                [type |-> "select",
                                 options |-> createPackageManagerSelectOptions(currentPackageManager),
                                 initial |-> currentPackageManager,
                                 cancel |-> "reject"]>>) >>
               /\ Await("promptForPackageManager")
               /\ UNCHANGED selectedPackageManager
    /\ UNCHANGED <<args, env, fs, projectDir, config, templateName, template,
                   shouldInstall, log, result, harness, outcomes>>

\* selectPackageManager(args.packageManager), up to its await of the prompt
SelectPackageManager ==
    /\ Enter("selectPackageManager")
    /\ LET argValidation == validatePackageManagerArg(args.packageManager)
           currentPackageManager == detectCurrentPackageManager(env)
       IN IF isOk(argValidation)
          THEN /\ selectedPackageManager' = argValidation.data
               /\ Return("selectPackageManager")
               /\ UNCHANGED calls
          ELSE /\ calls' = calls \o
                      << Call("process.env", <<"npm_config_user_agent">>),
                         Call("consola.prompt",
                              <<PackageManagerPromptMessage,
                                [type |-> "select",
                                 options |-> createPackageManagerSelectOptions(currentPackageManager),
                                 initial |-> currentPackageManager,
                                 cancel |-> "reject"]>>) >>
               /\ Await("promptForPackageManager")
               /\ UNCHANGED selectedPackageManager
    /\ UNCHANGED <<args, env, fs, projectDir, config, templateName, template,
                   shouldInstall, log, result, harness, outcomes>>

\* the package manager prompt resolves with one of the offered options
PromptForPackageManagerResolves ==
    /\ pc = "promptForPackageManager"
    /\ \E answer \in PackageManagerAnswers :
          /\ Return("selectPackageManager")
          /\ outcomes' = Append(outcomes, Resolved("promptForPackageManager", answer))
          /\ selectedPackageManager' = answer
    /\ UNCHANGED <<args, env, fs, projectDir, config, templateName, template,
                   shouldInstall, log, calls, started, result, harness>>

\* the package manager prompt rejects (cancelled): selectPackageManager exits
PromptForPackageManagerRejects ==
    /\ pc = "promptForPackageManager"
    /\ \E thrown \in Thrown :
          LET promptResult == Err(CaughtAsError(thrown, <<"Package manager selection cancelled">>))
          IN /\ ~isOk(promptResult)
             /\ Exit(1)
             /\ outcomes' = Append(outcomes, Rejected("promptForPackageManager", thrown))
    /\ UNCHANGED <<args, env, fs, locals, log, calls, started, result, harness>>

\* (mutation) an explicit install argument is the decision, without a prompt
ConfirmDependenciesInstallation_ArgumentWins ==
    /\ Enter("confirmDependenciesInstallation")
    /\ IF IsBoolean(args.install)
       THEN /\ shouldInstall' = args.install
            /\ Return("confirmDependenciesInstallation")
            /\ UNCHANGED calls
       ELSE /\ calls' = Append(calls, Call("consola.prompt",
                            <<InstallPromptMessage,
                              [type |-> "confirm", initial |-> args.install, cancel |-> "reject"]>>))
            /\ Await("promptForDependenciesInstallation")
            /\ UNCHANGED shouldInstall
    /\ UNCHANGED <<args, env, fs, projectDir, config, templateName, template,
                   selectedPackageManager, log, result, harness, outcomes>>

\* confirmDependenciesInstallation(args.install), up to its await of the prompt
ConfirmDependenciesInstallation ==
    /\ Enter("confirmDependenciesInstallation")
    /\ calls' = Append(calls, Call("consola.prompt",
                    <<InstallPromptMessage,
                      [type |-> "confirm", initial |-> args.install, cancel |-> "reject"]>>))
    /\ Await("promptForDependenciesInstallation")
    /\ UNCHANGED <<args, env, fs, locals, log, result, harness, outcomes>>

\* (mutation) every failure of the install confirmation has its message written
ConfirmAfterPrompt_LogsEveryError(promptResult) ==
    IF isOk(promptResult)
    THEN /\ shouldInstall' = promptResult.data
         /\ Return("confirmDependenciesInstallation")
         /\ UNCHANGED log
    ELSE /\ log' = Append(log, Logged("error", promptResult.error.message))
         /\ Exit(1)
         /\ UNCHANGED shouldInstall

\* what confirmDependenciesInstallation does with promptForDependenciesInstallation's Result
ConfirmAfterPrompt(promptResult) ==
    IF isOk(promptResult)
    THEN /\ shouldInstall' = promptResult.data
         /\ Return("confirmDependenciesInstallation")
         /\ UNCHANGED log
    ELSE LET errorMessage == promptResult.error.message
         IN /\ log' = IF Includes(errorMessage, PleaseSpecify)
                      THEN Append(log, Logged("error", errorMessage))
                      ELSE log
            /\ Exit(1)
            /\ UNCHANGED shouldInstall

\* the install confirmation resolves with the user's answer
PromptForDependenciesInstallationResolves ==
    /\ pc = "promptForDependenciesInstallation"
    /\ \E answer \in ConfirmAnswers :
          LET validationResult == validateInstallationPromptResult(answer)
          IN /\ outcomes' = Append(outcomes, Resolved("promptForDependenciesInstallation", answer))
             /\ ConfirmAfterPrompt(IF isOk(validationResult) THEN validationResult
                                   ELSE Err(Error(validationResult.error)))
    /\ UNCHANGED <<args, env, fs, projectDir, config, templateName, template,
                   selectedPackageManager, calls, started, result, harness>>

\* the install confirmation rejects (cancelled)
PromptForDependenciesInstallationRejects ==
    /\ pc = "promptForDependenciesInstallation"
    /\ \E thrown \in InstallPromptThrown :
          /\ outcomes' = Append(outcomes, Rejected("promptForDependenciesInstallation", thrown))
          /\ ConfirmAfterPrompt(Err(CaughtAsError(thrown, <<"Dependencies installation prompt cancelled">>)))
    /\ UNCHANGED <<args, env, fs, projectDir, config, templateName, template,
                   selectedPackageManager, calls, started, result, harness>>

\* (mutation) the installer runs only on an explicit true
InstallDependenciesIfRequested_OnlyWhenTrue ==
    /\ Enter("installDependenciesIfRequested")
    /\ IF shouldInstall # Bool(TRUE)
       THEN /\ log' = Append(log, Logged("info", <<"Skipping dependency installation.">>))
            /\ Return("installDependenciesIfRequested")
            /\ UNCHANGED calls
       ELSE /\ log' = Append(log, Logged("start", <<"Installing dependencies...">>))
            /\ calls' = Append(calls, Call("installDependencies",
                            <<createInstallationConfig(template.dir, selectedPackageManager)>>))
            /\ Await("installDependencies")
    /\ UNCHANGED <<args, env, fs, locals, result, harness, outcomes>>

\* installDependenciesIfRequested(shouldInstall, template.dir, selectedPackageManager),
\* up to the await of nypm's installDependencies inside installDependenciesWithResult
InstallDependenciesIfRequested ==
    /\ Enter("installDependenciesIfRequested")
    /\ IF shouldInstall = Bool(FALSE)
       THEN /\ log' = Append(log, Logged("info", <<"Skipping dependency installation.">>))
            /\ Return("installDependenciesIfRequested")
            /\ UNCHANGED calls
       ELSE /\ log' = Append(log, Logged("start", <<"Installing dependencies...">>))
            /\ calls' = Append(calls, Call("installDependencies",
                            <<createInstallationConfig(template.dir, selectedPackageManager)>>))
            /\ Await("installDependencies")
    /\ UNCHANGED <<args, env, fs, locals, result, harness, outcomes>>

\* (mutation) a failed installation is swallowed and the workflow goes on
InstallAfterResult_Swallow(installResult) ==
    /\ log' = IF isOk(installResult)
              THEN Append(log, Logged("success", <<"Installation completed.">>))
              ELSE log
    /\ Return("installDependenciesIfRequested")

\* what installDependenciesIfRequested does with installDependenciesWithResult's Result
InstallAfterResult(installResult) ==
    IF isOk(installResult)
    THEN /\ log' = Append(log, Logged("success", <<"Installation completed.">>))
         /\ Return("installDependenciesIfRequested")
    ELSE handleError(installResult.error)

\* the installation resolves
InstallDependenciesResolves ==
    /\ pc = "installDependencies"
    /\ outcomes' = Append(outcomes, Resolved("installDependencies", Undef))
    /\ InstallAfterResult(Ok(Undef))
    /\ UNCHANGED <<args, env, fs, locals, calls, started, result, harness>>

\* the installation throws
InstallDependenciesRejects ==
    /\ pc = "installDependencies"
    /\ \E thrown \in Thrown :
          /\ outcomes' = Append(outcomes, Rejected("installDependencies", thrown))
          /\ InstallAfterResult(Err(CaughtAsError(thrown, <<"Dependencies installation failed">>)))
    /\ UNCHANGED <<args, env, fs, locals, calls, started, result, harness>>

(* ------------------------------------------------------------------ *)
(* Step 4: git                                                        *)
(* ------------------------------------------------------------------ *)
\* (mutation) a cancelled git confirmation counts as "no"
InitializeGitAfterDecision_CancelMeansNo(shouldInitResult) ==
    IF ~isOk(shouldInitResult) \/ ~Truthy(shouldInitResult.data)
    THEN /\ Return("initializeGitIfRequested")
         /\ UNCHANGED <<log, calls>>
    ELSE /\ log' = Append(log, Logged("info", <<"Initializing git repository...", "\n">>))
         /\ calls' = Append(calls, Call("x",
                         <<"git", createGitInitArgs(template.dir),
                           [throwOnError |-> TRUE, nodeOptions |-> [stdio |-> "inherit"]]>>))
         /\ Await("executeGitInit")

\* (mutation) `git init` runs whatever the decision is
InitializeGitAfterDecision_Always(shouldInitResult) ==
    IF ~isOk(shouldInitResult)
    THEN /\ Exit(1)
         /\ UNCHANGED <<log, calls>>
    ELSE /\ log' = Append(log, Logged("info", <<"Initializing git repository...", "\n">>))
         /\ calls' = Append(calls, Call("x",
                         <<"git", createGitInitArgs(template.dir),
                           [throwOnError |-> TRUE, nodeOptions |-> [stdio |-> "inherit"]]>>))
         /\ Await("executeGitInit")

\* initializeGitIfRequested from determineGitInitialization's Result on, up to the
\* await of `git init` inside executeGitInit
InitializeGitAfterDecision(shouldInitResult) ==
    IF ~isOk(shouldInitResult)
    THEN /\ Exit(1)
         /\ UNCHANGED <<log, calls>>
    ELSE IF ~Truthy(shouldInitResult.data)
         THEN /\ Return("initializeGitIfRequested")
              /\ UNCHANGED <<log, calls>>
         ELSE /\ log' = Append(log, Logged("info", <<"Initializing git repository...", "\n">>))
              /\ calls' = Append(calls, Call("x",
                              <<"git", createGitInitArgs(template.dir),
                                [throwOnError |-> TRUE, nodeOptions |-> [stdio |-> "inherit"]]>>))
              /\ Await("executeGitInit")

\* initializeGitIfRequested(args.gitInit, template.dir), up to its first await
InitializeGitIfRequested ==
    /\ Enter("initializeGitIfRequested")
    /\ LET paramValidation == validateGitInitParam(args.gitInit)
       IN IF isOk(paramValidation)
          THEN InitializeGitAfterDecision(Ok(paramValidation.data))
          ELSE /\ calls' = Append(calls, Call("consola.prompt",
                               <<GitPromptMessage, [type |-> "confirm", cancel |-> "reject"]>>))
               /\ Await("promptForGitInitialization")
               /\ UNCHANGED log
    /\ UNCHANGED <<args, env, fs, locals, result, harness, outcomes>>

\* the git confirmation resolves with the user's answer
PromptForGitInitializationResolves ==
    /\ pc = "promptForGitInitialization"
    /\ \E answer \in GitAnswers :
          /\ outcomes' = Append(outcomes, Resolved("promptForGitInitialization", answer))
          /\ InitializeGitAfterDecision(Ok(answer))
    /\ UNCHANGED <<args, env, fs, locals, started, result, harness>>

\* the git confirmation rejects (cancelled)
PromptForGitInitializationRejects ==
    /\ pc = "promptForGitInitialization"
    /\ \E thrown \in Thrown :
          /\ outcomes' = Append(outcomes, Rejected("promptForGitInitialization", thrown))
          /\ InitializeGitAfterDecision(Err(CaughtAsError(thrown, <<"Git initialization prompt cancelled">>)))
    /\ UNCHANGED <<args, env, fs, locals, started, result, harness>>

\* (mutation) a failed `git init` is handled like a failed download: log and exit
GitAfterResult_Fatal(gitInitResult) ==
    IF isOk(gitInitResult)
    THEN /\ Return("initializeGitIfRequested")
         /\ UNCHANGED log
    ELSE handleError(gitInitResult.error)

\* what initializeGitIfRequested does with executeGitInit's Result
GitAfterResult(gitInitResult) ==
    /\ log' = IF ~isOk(gitInitResult)
              THEN Append(log, Logged("warn",
                       <<"Failed to initialize git repository: ">> \o gitInitResult.error.message))
              ELSE log
    /\ Return("initializeGitIfRequested")

\* `git init <dir>` exits with status 0
ExecuteGitInitResolves ==
    /\ pc = "executeGitInit"
    /\ outcomes' = Append(outcomes, Resolved("executeGitInit", Undef))
    /\ fs' = fs \cup {template.dir \o <<"/", ".git">>}
    /\ GitAfterResult(Ok(Undef))
    /\ UNCHANGED <<args, env, locals, calls, started, result, harness>>

\* `git init <dir>` cannot be spawned or exits with a non-zero status
ExecuteGitInitRejects ==
    /\ pc = "executeGitInit"
    /\ \E thrown \in Thrown :
          /\ outcomes' = Append(outcomes, Rejected("executeGitInit", thrown))
          /\ GitAfterResult(Err(CaughtAsError(thrown, <<"Git initialization failed">>)))
    /\ UNCHANGED <<args, env, fs, locals, calls, started, result, harness>>

(* ------------------------------------------------------------------ *)
(* Step 5: final instructions                                         *)
(* ------------------------------------------------------------------ *)
\* the lines displayFinalInstructions writes with consola.log
FinalInstructionLines(instructions) ==
    <<instructions.successMessage, instructions.nextStepsTitle, instructions.changeDirectory>>
    \o (IF Truthy(instructions.installCommand) THEN <<instructions.installCommand.v>> ELSE <<>>)
    \o <<instructions.devCommand, instructions.happyCoding>>

\* (mutation) the instructions name the packageManager argument whenever one was given
DisplayFinalInstructions_RawArgument ==
    /\ Enter("displayFinalInstructions")
    /\ LET lines == FinalInstructionLines(
                        createFinalInstructions(projectDir, shouldInstall,
                                                IF IsString(args.packageManager)
                                                THEN args.packageManager.v
                                                ELSE selectedPackageManager,
                                                template.source))
       IN log' = log \o [i \in DOMAIN lines |-> Logged("log", lines[i])]
    /\ Return("displayFinalInstructions")
    /\ UNCHANGED <<args, env, fs, locals, calls, result, harness, outcomes>>

\* displayFinalInstructions(projectDir, shouldInstall, selectedPackageManager, template.source)
DisplayFinalInstructions ==
    /\ Enter("displayFinalInstructions")
    /\ LET lines == FinalInstructionLines(
                        createFinalInstructions(projectDir, shouldInstall,
                                                selectedPackageManager, template.source))
       IN log' = log \o [i \in DOMAIN lines |-> Logged("log", lines[i])]
    /\ Return("displayFinalInstructions")
    /\ UNCHANGED <<args, env, fs, locals, calls, result, harness, outcomes>>

\* return Ok(undefined)
ReturnOk ==
    /\ pc = "return"
    /\ result' = Ok(Undef)
    /\ pc' = "returned"
    /\ UNCHANGED <<args, env, fs, locals, log, calls, outcomes, started, completed, exitCode,
                   harness>>

(* ------------------------------------------------------------------ *)
(* Specification                                                      *)
(* ------------------------------------------------------------------ *)
Next ==
    \/ GetProjectDirectory
    \/ PromptForProjectDirectoryResolves
    \/ PromptForProjectDirectoryRejects
    \/ DisplayProjectCreationInfo
    \/ VerifyDirectoryDoesNotExist
    \/ SelectTemplate
    \/ PromptForTemplateResolves
    \/ PromptForTemplateRejects
    \/ DownloadTemplateAndHandleErrors
    \/ DownloadTemplateResolves
    \/ DownloadTemplateRejects
    \/ SelectPackageManager
    \/ PromptForPackageManagerResolves
    \/ PromptForPackageManagerRejects
    \/ ConfirmDependenciesInstallation
    \/ PromptForDependenciesInstallationResolves
    \/ PromptForDependenciesInstallationRejects
    \/ InstallDependenciesIfRequested
    \/ InstallDependenciesResolves
    \/ InstallDependenciesRejects
    \/ InitializeGitIfRequested
    \/ PromptForGitInitializationResolves
    \/ PromptForGitInitializationRejects
    \/ ExecuteGitInitResolves
    \/ ExecuteGitInitRejects
    \/ DisplayFinalInstructions
    \/ ReturnOk

Spec == Init /\ [][Next]_vars

\* the collaborators the workflow awaits: prompts, download, installation, git subprocess
Collaborators ==
    {"promptForProjectDirectory", "promptForTemplate", "downloadTemplate",
     "promptForPackageManager", "promptForDependenciesInstallation", "installDependencies",
     "promptForGitInitialization", "executeGitInit"}

\* a pending collaborator call resolves or rejects
CollaboratorResponds ==
    \/ PromptForProjectDirectoryResolves
    \/ PromptForProjectDirectoryRejects
    \/ PromptForTemplateResolves
    \/ PromptForTemplateRejects
    \/ DownloadTemplateResolves
    \/ DownloadTemplateRejects
    \/ PromptForPackageManagerResolves
    \/ PromptForPackageManagerRejects
    \/ PromptForDependenciesInstallationResolves
    \/ PromptForDependenciesInstallationRejects
    \/ InstallDependenciesResolves
    \/ InstallDependenciesRejects
    \/ PromptForGitInitializationResolves
    \/ PromptForGitInitializationRejects
    \/ ExecuteGitInitResolves
    \/ ExecuteGitInitRejects

\* the workflow runs its next statement, up to the next await
WorkflowRuns ==
    \/ GetProjectDirectory
    \/ DisplayProjectCreationInfo
    \/ VerifyDirectoryDoesNotExist
    \/ SelectTemplate
    \/ DownloadTemplateAndHandleErrors
    \/ SelectPackageManager
    \/ ConfirmDependenciesInstallation
    \/ InstallDependenciesIfRequested
    \/ InitializeGitIfRequested
    \/ DisplayFinalInstructions
    \/ ReturnOk

\* the runs whose fairness is examined: every dir, gitInit and packageManager argument,
\* with and without a template argument, with and without the target on disk
LiveInit ==
    /\ Init
    /\ args.template \in {Undef, Str(<<" ", "custom">>)}
    /\ args.install = Undef
    /\ env.npm_config_user_agent = Undef

\* the workflow where code that can run does run (the event loop resumes an async function
\* whose awaited promise settled) and every collaborator call is eventually answered
LiveSpec ==
    /\ LiveInit
    /\ [][Next]_vars
    /\ WF_vars(WorkflowRuns)
    /\ WF_vars(CollaboratorResponds)

\* another process creates the target while the template prompt waits for the user: the
\* file system is shared with every process of the machine, and the workflow does not
\* lock the path it checked with existsSync
OtherProcessCreatesTarget ==
    /\ pc = "promptForTemplate"
    /\ config.templateDownloadPath \notin fs
    /\ fs' = fs \cup {config.templateDownloadPath}
    /\ UNCHANGED <<args, env, pc, locals, log, calls, outcomes, started, completed, exitCode,
                   result, harness>>

RaceNext ==
    \/ Next
    \/ OtherProcessCreatesTarget

\* the workflow on a file system that another process writes to
RaceSpec == Init /\ [][RaceNext]_vars

(* ------------------------------------------------------------------ *)
(* mainCommand.run, over the interface of the step functions          *)
(*                                                                    *)
(* The step functions the workflow imports are taken as they appear   *)
(* to their caller: a call returns a value, throws (rejects), or ends *)
(* the process.  The statements of command.ts itself are the actions  *)
(* of the workflow above.                                             *)
(* ------------------------------------------------------------------ *)
bold(s) == <<"\\x1b[1m">> \o s \o <<"\\x1b[22m">>

\* the imported step functions executeProjectCreationWorkflow calls
StepFunctions ==
    {"getProjectDirectory", "verifyDirectoryDoesNotExist", "selectTemplate",
     "downloadTemplateAndHandleErrors", "selectPackageManager",
     "confirmDependenciesInstallation", "installDependenciesIfRequested",
     "initializeGitIfRequested"}

\* the arguments the workflow passes to step function `step`
StepArguments(step) ==
    CASE step = "getProjectDirectory" -> <<args.dir>>
      [] step = "verifyDirectoryDoesNotExist" -> <<config.templateDownloadPath>>
      [] step = "selectTemplate" -> <<args.template>>
      [] step = "downloadTemplateAndHandleErrors" -> <<templateName, config.templateDownloadPath>>
      [] step = "selectPackageManager" -> <<args.packageManager>>
      [] step = "confirmDependenciesInstallation" -> <<args.install>>
      [] step = "installDependenciesIfRequested"
            -> <<shouldInstall, template.dir, selectedPackageManager>>
      [] step = "initializeGitIfRequested" -> <<args.gitInit, template.dir>>

\* what step function `step` may return, by its return type
StepValues(step) ==
    CASE step = "getProjectDirectory" -> DirectoryAnswers
      [] step = "selectTemplate" -> {DEFAULT_TEMPLATE_NAME, <<"tanstack-start">>}
      [] step = "downloadTemplateAndHandleErrors"
            -> {[dir |-> config.templateDownloadPath, source |-> source] :
                    source \in TemplateSources}
      [] step = "selectPackageManager" -> PackageManagerAnswers
      [] step = "confirmDependenciesInstallation" -> {Bool(TRUE), Bool(FALSE)}
      [] OTHER -> {Undef}

\* (mutation) the caught value is returned as it was thrown
WorkflowCatch_Raw(thrown) == Err(thrown)

\* catch (error) { return Err(error instanceof Error ? error : new Error(...)) }
WorkflowCatch(thrown) == Err(CaughtAsError(thrown, <<"Project creation workflow failed">>))

\* how mainCommand.run ends
RunReturned == [threw |-> FALSE, value |-> Undef]

RunThrew(error) == [threw |-> TRUE, value |-> error]

RunInit ==
    /\ args \in [cwd : {Str(<<".">>)}, dir : DirArgs, template : TemplateArgs,
                 install : InstallArgs, gitInit : GitInitArgs,
                 packageManager : PackageManagerArgs]
    /\ env = [npm_config_user_agent |-> Undef]
    /\ fs = {ProcessCwd}
    /\ pc = "mainCommand.run"
    /\ projectDir = <<>>
    /\ config = [projectDir |-> <<>>, templateDownloadPath |-> <<>>, cwd |-> <<>>]
    /\ templateName = <<>>
    /\ template = [dir |-> <<>>, source |-> <<>>]
    /\ selectedPackageManager = <<>>
    /\ shouldInstall = Undef
    /\ log = <<>>
    /\ calls = <<>>
    /\ outcomes = <<>>
    /\ started = <<>>
    /\ completed = <<>>
    /\ exitCode = Undef
    /\ result = Undef
    /\ runOutcome = Undef
    /\ input = Undef
    /\ output = Undef

\* run: 'Loading...' on a TTY, the greeting, then the call of the workflow
MainCommandRun ==
    /\ pc = "mainCommand.run"
    /\ \E hasTTY \in BOOLEAN :
          calls' = IF hasTTY
                   THEN Append(calls, Call("process.stdout.write", <<"Loading...", "\n">>))
                   ELSE calls
    /\ log' = Append(log, Logged("info", bold(<<"U+1F389", " Hello xeikit app!">>)))
    /\ pc' = "getProjectDirectory"
    /\ UNCHANGED <<args, env, fs, locals, outcomes, started, completed, exitCode, result,
                   harness>>

\* the step function the workflow is at is called and returns `value`
StepFunctionReturns ==
    /\ pc \in StepFunctions
    /\ Enter(pc)
    /\ calls' = Append(calls, Call(pc, StepArguments(pc)))
    /\ \E value \in StepValues(pc) :
          /\ outcomes' = Append(outcomes, Resolved(pc, value))
          /\ projectDir' = IF pc = "getProjectDirectory" THEN value ELSE projectDir
          /\ templateName' = IF pc = "selectTemplate" THEN value ELSE templateName
          /\ template' = IF pc = "downloadTemplateAndHandleErrors" THEN value ELSE template
          /\ selectedPackageManager' = IF pc = "selectPackageManager" THEN value
                                       ELSE selectedPackageManager
          /\ shouldInstall' = IF pc = "confirmDependenciesInstallation" THEN value
                              ELSE shouldInstall
    /\ Return(pc)
    /\ UNCHANGED <<args, env, fs, config, log, result, harness>>

\* the step function the workflow is at is called and throws: the catch block returns
StepFunctionThrows ==
    /\ pc \in StepFunctions
    /\ Enter(pc)
    /\ calls' = Append(calls, Call(pc, StepArguments(pc)))
    /\ \E thrown \in Thrown :
          /\ outcomes' = Append(outcomes, Rejected(pc, thrown))
          /\ result' = WorkflowCatch(thrown)
    /\ pc' = "returned"
    /\ UNCHANGED <<args, env, fs, locals, log, completed, exitCode, harness>>

\* the step function the workflow is at is called and ends the process
StepFunctionExits ==
    /\ pc \in StepFunctions
    /\ Enter(pc)
    /\ calls' = Append(calls, Call(pc, StepArguments(pc)))
    /\ Exit(1)
    /\ UNCHANGED <<args, env, fs, locals, log, outcomes, result, harness>>

\* (mutation) run never throws
MainCommandRunSettles_Swallow ==
    /\ pc = "returned"
    /\ runOutcome' = RunReturned
    /\ pc' = "settled"
    /\ UNCHANGED <<args, env, fs, locals, log, calls, outcomes, started, completed, exitCode,
                   result, input, output>>

\* if (!result.success) throw result.error
MainCommandRunSettles ==
    /\ pc = "returned"
    /\ runOutcome' = IF ~result.success THEN RunThrew(result.error) ELSE RunReturned
    /\ pc' = "settled"
    /\ UNCHANGED <<args, env, fs, locals, log, calls, outcomes, started, completed, exitCode,
                   result, input, output>>

RunNext ==
    \/ MainCommandRun
    \/ StepFunctionReturns
    \/ DisplayProjectCreationInfo
    \/ StepFunctionThrows
    \/ StepFunctionExits
    \/ DisplayFinalInstructions
    \/ ReturnOk
    \/ MainCommandRunSettles

RunSpec == RunInit /\ [][RunNext]_vars

(* ------------------------------------------------------------------ *)
(* Result combinators (types/result.ts)                               *)
(*                                                                    *)
(* A combinator is given a callback; the callbacks are named, and an  *)
(* evaluation carries the callback invocations it made, in order.     *)
(* ------------------------------------------------------------------ *)
\* an evaluation ends by returning a value or by throwing one
Returned(v) == [threw |-> FALSE, value |-> v]

Threw(e) == [threw |-> TRUE, value |-> e]

\* the decimal digits, as tokens
Digit == <<"0", "1", "2", "3", "4", "5", "6", "7", "8", "9">>

\* Number.prototype.toString() of a non-negative integer
RECURSIVE NumberToString(_)
NumberToString(n) ==
    IF n < 10 THEN <<Digit[n + 1]>>
    ELSE NumberToString(n \div 10) \o <<Digit[(n % 10) + 1]>>

\* the value of a string of decimal digits
RECURSIVE DigitsValue(_)
DigitsValue(s) ==
    IF s = <<>> THEN 0
    ELSE 10 * DigitsValue(SubSeq(s, 1, Len(s) - 1))
             + ((CHOOSE d \in DOMAIN Digit : Digit[d] = s[Len(s)]) - 1)

\* ToNumber(x): <<n>>, or <<>> for NaN
ToNumber(x) ==
    CASE x.t = "number" -> <<x.v>>
      [] x.t = "string" -> IF \A i \in DOMAIN x.v : x.v[i] \in Range(Digit)
                           THEN <<DigitsValue(x.v)>> ELSE <<>>
      [] x.t = "boolean" -> IF x.v THEN <<1>> ELSE <<0>>
      [] x.t = "null" -> <<0>>
      [] OTHER -> <<>>

\* String(x), as a template literal converts x
StringOf(x) ==
    CASE x.t = "number" -> NumberToString(x.v)
      [] x.t = "string" -> x.v
      [] x.t = "boolean" -> IF x.v THEN <<"true">> ELSE <<"false">>
      [] x.t = "Error" -> ErrorToString(x)
      [] x.t = "null" -> <<"null">>
      [] OTHER -> <<"undefined">>

\* the callbacks handed to map and mapErr
Callbacks == {"identity", "Ok", "doubleIfValid", "numberToString", "failWith", "mapped", "raise"}

\* the callbacks handed to chain: those that return a Result (or throw)
ChainCallbacks == {"Ok", "doubleIfValid", "numberToString", "failWith", "raise"}

\* fn(x), for the callback named fn:
\*   identity        (x) => x
\*   Ok              Ok
\*   doubleIfValid   (x) => (x > 5 ? Ok(x * 2) : Err('too small'))
\*   numberToString  (x) => Ok(x.toString())
\*   failWith        (x) => Err('error with ' + x)
\*   mapped          (err) => 'mapped: ' + err
\*   raise           (x) => { throw x }
CallFn(fn, x) ==
    CASE fn = "identity" -> Returned(x)
      [] fn = "Ok" -> Returned(Ok(x))
      [] fn = "doubleIfValid" ->
             LET n == ToNumber(x)
             IN Returned(IF n # <<>> /\ n[1] > 5 THEN Ok(Num(n[1] * 2))
                         ELSE Err(Str(<<"too small">>)))
      [] fn = "numberToString" ->
             IF x.t \in {"undefined", "null"}
             THEN Threw(Error(<<"Cannot read properties of ">> \o StringOf(x)))
             ELSE Returned(Ok(Str(StringOf(x))))
      [] fn = "failWith" -> Returned(Err(Str(<<"error with ">> \o StringOf(x))))
      [] fn = "mapped" -> Returned(Str(<<"mapped: ">> \o StringOf(x)))
      [] fn = "raise" -> Threw(x)

\* an evaluation that invoked no callback
Plain(outcome) == [outcome |-> outcome, invoked |-> <<>>]

\* an evaluation that invoked callback fn with x
Invoking(fn, x, outcome) == [outcome |-> outcome, invoked |-> <<Call(fn, <<x>>)>>]

\* (mutation) map transforms the error of a failure as well
map_MapsErr(fn, r) ==
    IF isOk(r)
    THEN LET called == CallFn(fn, r.data)
         IN Invoking(fn, r.data, IF called.threw THEN called ELSE Returned(Ok(called.value)))
    ELSE LET called == CallFn(fn, r.error)
         IN Invoking(fn, r.error, IF called.threw THEN called ELSE Returned(Err(called.value)))

\* map(fn)(result)
map(fn, r) ==
    IF isOk(r)
    THEN LET called == CallFn(fn, r.data)
         IN Invoking(fn, r.data, IF called.threw THEN called ELSE Returned(Ok(called.value)))
    ELSE Plain(Returned(r))

\* mapErr(fn)(result)
mapErr(fn, r) ==
    IF ~isOk(r)
    THEN LET called == CallFn(fn, r.error)
         IN Invoking(fn, r.error, IF called.threw THEN called ELSE Returned(Err(called.value)))
    ELSE Plain(Returned(r))

\* (mutation) chain applies fn to result.data of a failure too (undefined)
chain_NoShortCircuit(fn, r) ==
    IF isOk(r)
    THEN Invoking(fn, r.data, CallFn(fn, r.data))
    ELSE Invoking(fn, Undef, CallFn(fn, Undef))

\* chain(fn)(result)
chain(fn, r) ==
    IF isOk(r)
    THEN Invoking(fn, r.data, CallFn(fn, r.data))
    ELSE Plain(Returned(r))

\* chain(fns[n])(... chain(fns[1])(result)): a composition of chain steps
RECURSIVE ChainAll(_, _)
ChainAll(fns, r) ==
    IF fns = <<>> THEN Plain(Returned(r))
    ELSE LET first == chain(Head(fns), r)
         IN IF first.outcome.threw THEN first
            ELSE LET rest == ChainAll(Tail(fns), first.outcome.value)
                 IN [outcome |-> rest.outcome, invoked |-> first.invoked \o rest.invoked]

\* (mutation) unwrap throws an Error made of the stored error
unwrap_Wrapped(r) ==
    IF isOk(r) THEN Returned(r.data)
    ELSE Threw(CaughtAsError(r.error, StringOf(r.error)))

\* unwrap(result)
unwrap(r) ==
    IF isOk(r) THEN Returned(r.data)
    ELSE Threw(r.error)

\* unwrapOr(defaultValue)(result)
unwrapOr(defaultValue, r) ==
    Returned(IF isOk(r) THEN r.data ELSE defaultValue)

(* ------------------------------------------------------------------ *)
(* The exported functions, called on their own                        *)
(*                                                                    *)
(* `input` is the function and its argument, `output` what it returned.*)
(* A function that awaits a collaborator is a sequence of actions.     *)
(* ------------------------------------------------------------------ *)
MaxDirArgLen == 3

MaxPackageManagerArgLen == 2

MaxUserAgentLen == 3

MaxTemplateArgLen == 3

MaxChainSteps == 2

\* the strings of at most n tokens
StringsUpTo(tokens, n) == UNION {[1..k -> tokens] : k \in 0..n}

DirArgStrings == StringsUpTo({" ", "\t", "my", "app"}, MaxDirArgLen)

PackageManagerArgStrings ==
    StringsUpTo({PACKAGE_MANAGER_OPTIONS[i][1] : i \in DOMAIN PACKAGE_MANAGER_OPTIONS}
                    \cup {"pip", " "},
                MaxPackageManagerArgLen)

UserAgentStrings == StringsUpTo({"npm", "pnpm", "pip", "/", "1.0"}, MaxUserAgentLen)

TemplateArgStrings == StringsUpTo({" ", "\t", "nuxt4", "custom"}, MaxTemplateArgLen)

\* the payloads of the Results the combinators are applied to
Payloads == {Num(2), Num(6), Str(<<"error">>), Error(<<"test error">>), Undef}

Results == {Ok(v) : v \in Payloads} \cup {Err(v) : v \in Payloads}

\* compositions of 1..MaxChainSteps chain steps
ChainSteps == UNION {[1..k -> ChainCallbacks] : k \in 1..MaxChainSteps}

\* a call of function `fn` with argument(s) `arg`
Apply(fn, arg) == [fn |-> fn, arg |-> arg]

FnInputs ==
    {Apply("validateDirectoryArg", a) : a \in {Undef} \cup {Str(s) : s \in DirArgStrings}}
    \cup {Apply("validatePackageManagerArg", a) :
              a \in {Undef} \cup {Str(s) : s \in PackageManagerArgStrings}}
    \cup {Apply("determineGitInitialization", a) : a \in GitInitArgs}
    \cup {Apply("installDependenciesIfRequested", a) :
              a \in [shouldInstall : InstallArgs,
                     dir : {<<"test", "/", "path">>},
                     packageManager : Range(PACKAGE_MANAGER_OPTIONS)]}
    \cup {Apply("detectCurrentPackageManager", [npm_config_user_agent |-> a]) :
              a \in {Undef} \cup {Str(s) : s \in UserAgentStrings}}
    \cup {Apply("validateTemplateArg", a) :
              a \in {Undef} \cup {Str(s) : s \in TemplateArgStrings}}
    \cup {Apply("getProjectDirectory", a) : a \in {Undef} \cup {Str(s) : s \in DirArgStrings}}
    \cup {Apply("chain", a) : a \in [fns : ChainSteps, result : Results]}
    \cup {Apply("map", a) : a \in [fn : Callbacks, result : Results]}
    \cup {Apply("mapErr", a) : a \in [fn : Callbacks, result : Results]}
    \cup {Apply("unwrap", a) : a \in [result : Results]}
    \cup {Apply("unwrapOr", a) : a \in [defaultValue : Payloads, result : Results]}

FnInit ==
    /\ input \in FnInputs
    /\ output = Undef
    /\ pc = input.fn
    /\ args = [cwd |-> Str(<<".">>), dir |-> IF input.fn = "getProjectDirectory" THEN input.arg ELSE Str(<<>>),
               template |-> Undef,
               install |-> Undef, gitInit |-> Undef, packageManager |-> Undef]
    /\ env = [npm_config_user_agent |-> Undef]
    /\ fs = {ProcessCwd}
    /\ projectDir = <<>>
    /\ config = [projectDir |-> <<>>, templateDownloadPath |-> <<>>, cwd |-> <<>>]
    /\ templateName = <<>>
    /\ template = [dir |-> IF input.fn = "installDependenciesIfRequested"
                           THEN input.arg.dir ELSE <<>>,
                   source |-> <<>>]
    /\ selectedPackageManager = IF input.fn = "installDependenciesIfRequested"
                                THEN input.arg.packageManager ELSE <<>>
    /\ shouldInstall = IF input.fn = "installDependenciesIfRequested"
                       THEN input.arg.shouldInstall ELSE Undef
    /\ log = <<>>
    /\ calls = <<>>
    /\ outcomes = <<>>
    /\ started = <<>>
    /\ completed = <<>>
    /\ exitCode = Undef
    /\ result = Undef
    /\ runOutcome = Undef

\* what a function call leaves alone
workflow == <<args, env, fs, locals, started, completed, exitCode, result, runOutcome, input>>

\* validateDirectoryArg(input.arg)
ApplyValidateDirectoryArg ==
    /\ pc = "validateDirectoryArg"
    /\ output' = validateDirectoryArg(input.arg)
    /\ pc' = "done"
    /\ UNCHANGED <<workflow, log, calls, outcomes>>

\* validatePackageManagerArg(input.arg)
ApplyValidatePackageManagerArg ==
    /\ pc = "validatePackageManagerArg"
    /\ output' = validatePackageManagerArg(input.arg)
    /\ pc' = "done"
    /\ UNCHANGED <<workflow, log, calls, outcomes>>

\* determineGitInitialization(input.arg), up to its await of the prompt
DetermineGitInitialization ==
    /\ pc = "determineGitInitialization"
    /\ LET paramValidation == validateGitInitParam(input.arg)
       IN IF isOk(paramValidation)
          THEN /\ output' = Ok(paramValidation.data)
               /\ pc' = "done"
               /\ UNCHANGED calls
          ELSE /\ calls' = Append(calls, Call("consola.prompt",
                               <<GitPromptMessage, [type |-> "confirm", cancel |-> "reject"]>>))
               /\ pc' = "determineGitInitialization: promptForGitInitialization"
               /\ UNCHANGED output
    /\ UNCHANGED <<workflow, log, outcomes>>

\* the git confirmation resolves: return Ok(result)
DetermineGitInitializationPromptResolves ==
    /\ pc = "determineGitInitialization: promptForGitInitialization"
    /\ \E answer \in GitAnswers :
          /\ outcomes' = Append(outcomes, Resolved("promptForGitInitialization", answer))
          /\ output' = Ok(answer)
    /\ pc' = "done"
    /\ UNCHANGED <<workflow, log, calls>>

\* the git confirmation rejects (cancelled): return Err(...)
DetermineGitInitializationPromptRejects ==
    /\ pc = "determineGitInitialization: promptForGitInitialization"
    /\ \E thrown \in Thrown :
          /\ outcomes' = Append(outcomes, Rejected("promptForGitInitialization", thrown))
          /\ output' = Err(CaughtAsError(thrown, <<"Git initialization prompt cancelled">>))
    /\ pc' = "done"
    /\ UNCHANGED <<workflow, log, calls>>

\* detectCurrentPackageManager(), with input.arg as process.env
ApplyDetectCurrentPackageManager ==
    /\ pc = "detectCurrentPackageManager"
    /\ output' = detectCurrentPackageManager(input.arg)
    /\ pc' = "done"
    /\ UNCHANGED <<workflow, log, calls, outcomes>>

\* validateTemplateArg(input.arg)
ApplyValidateTemplateArg ==
    /\ pc = "validateTemplateArg"
    /\ output' = validateTemplateArg(input.arg)
    /\ pc' = "done"
    /\ UNCHANGED <<workflow, log, calls, outcomes>>

\* chain(fns[n])(... chain(fns[1])(input.arg.result))
ApplyChain ==
    /\ pc = "chain"
    /\ LET evaluation == ChainAll(input.arg.fns, input.arg.result)
       IN /\ output' = evaluation.outcome
          /\ calls' = calls \o evaluation.invoked
    /\ pc' = "done"
    /\ UNCHANGED <<workflow, log, outcomes>>

\* map(input.arg.fn)(input.arg.result)
ApplyMap ==
    /\ pc = "map"
    /\ LET evaluation == map(input.arg.fn, input.arg.result)
       IN /\ output' = evaluation.outcome
          /\ calls' = calls \o evaluation.invoked
    /\ pc' = "done"
    /\ UNCHANGED <<workflow, log, outcomes>>

\* mapErr(input.arg.fn)(input.arg.result)
ApplyMapErr ==
    /\ pc = "mapErr"
    /\ LET evaluation == mapErr(input.arg.fn, input.arg.result)
       IN /\ output' = evaluation.outcome
          /\ calls' = calls \o evaluation.invoked
    /\ pc' = "done"
    /\ UNCHANGED <<workflow, log, outcomes>>

\* unwrap(input.arg.result)
ApplyUnwrap ==
    /\ pc = "unwrap"
    /\ output' = unwrap(input.arg.result)
    /\ pc' = "done"
    /\ UNCHANGED <<workflow, log, calls, outcomes>>

\* unwrapOr(input.arg.defaultValue)(input.arg.result)
ApplyUnwrapOr ==
    /\ pc = "unwrapOr"
    /\ output' = unwrapOr(input.arg.defaultValue, input.arg.result)
    /\ pc' = "done"
    /\ UNCHANGED <<workflow, log, calls, outcomes>>

FnNext ==
    \/ ApplyValidateDirectoryArg
    \/ ApplyDetectCurrentPackageManager
    \/ ApplyValidateTemplateArg
    \/ ApplyValidatePackageManagerArg
    \/ DetermineGitInitialization
    \/ DetermineGitInitializationPromptResolves
    \/ DetermineGitInitializationPromptRejects
    \/ InstallDependenciesIfRequested
    \/ InstallDependenciesResolves
    \/ InstallDependenciesRejects
    \/ GetProjectDirectory
    \/ PromptForProjectDirectoryResolves
    \/ PromptForProjectDirectoryRejects
    \/ ApplyChain
    \/ ApplyMap
    \/ ApplyMapErr
    \/ ApplyUnwrap
    \/ ApplyUnwrapOr

FnSpec == FnInit /\ [][FnNext]_vars

(* ------------------------------------------------------------------ *)
(* Vocabulary of the properties                                       *)
(* ------------------------------------------------------------------ *)
IsPrefix(a, b) == Len(a) <= Len(b) /\ a = SubSeq(b, 1, Len(a))

Last(s) == s[Len(s)]

\* the number of invocations of collaborator `op`
CallCount(op) == Cardinality({i \in DOMAIN calls : calls[i].op = op})

\* the number of consola.prompt invocations with message `message`
PromptCount(message) ==
    Cardinality({i \in DOMAIN calls : calls[i].op = "consola.prompt" /\ calls[i].args[1] = message})

StepStarted(step) == \E i \in DOMAIN started : started[i] = step

StepCompleted(step) == \E i \in DOMAIN completed : completed[i] = step

\* collaborator call `op` threw
Failed(op) == \E i \in DOMAIN outcomes : outcomes[i].op = op /\ ~outcomes[i].ok

\* collaborator call `op` resolved
Succeeded(op) == \E i \in DOMAIN outcomes : outcomes[i].op = op /\ outcomes[i].ok

\* the existence check ran and found `found`
ExistenceCheckFound(found) ==
    \E i \in DOMAIN outcomes : outcomes[i].op = "existsSync" /\ outcomes[i].value = found

\* the texts written with consola.<level>, in order
TextsAt(level) ==
    LET AtLevel(entry) == entry.level = level
        entries == SelectSeq(log, AtLevel)
    IN [i \in DOMAIN entries |-> entries[i].text]

\* what collaborator call `op` threw
ThrownBy(op) ==
    outcomes[CHOOSE i \in DOMAIN outcomes : outcomes[i].op = op /\ ~outcomes[i].ok].value

\* what collaborator call `op` resolved with
AnswerOf(op) ==
    outcomes[CHOOSE i \in DOMAIN outcomes : outcomes[i].op = op /\ outcomes[i].ok].value

\* String(error) of what a step's catch block makes of a thrown value
ReportedAs(thrown, fallback) ==
    IF thrown.t = "Error"
    THEN IF thrown.message = <<>> THEN <<"Error">> ELSE <<"Error", ": ">> \o thrown.message
    ELSE <<"Error", ": ">> \o fallback

Running == pc \notin {"returned", "exited"}

\* the six (or five) lines of displayFinalInstructions were written
FinalInstructionsDisplayed ==
    /\ StepCompleted("displayFinalInstructions")
    /\ Len(TextsAt("log")) \in {5, 6}
    /\ Last(log).level = "log"

(* ------------------------------------------------------------------ *)
(* C1                                                                 *)
(* ------------------------------------------------------------------ *)
NineSteps ==
    <<"getProjectDirectory", "verifyDirectoryDoesNotExist", "selectTemplate",
      "downloadTemplateAndHandleErrors", "selectPackageManager",
      "confirmDependenciesInstallation", "installDependenciesIfRequested",
      "initializeGitIfRequested", "displayFinalInstructions">>

IsNineStep(step) == step \in Range(NineSteps)

\* C1: the nine steps start in the order of NineSteps, none twice and none skipped (the
\* steps started so far are an initial part of NineSteps), and a step starts only when
\* every step started before it has returned, so at most one step is in flight.
C1_StepsInTotalOrder ==
    /\ IsPrefix(SelectSeq(started, IsNineStep), NineSteps)
    /\ IsPrefix(completed, started)
    /\ Len(started) <= Len(completed) + 1

\* a run that went through all nine steps and returned
C1_Witness ==
    /\ pc = "returned"
    /\ SelectSeq(started, IsNineStep) = NineSteps
    /\ completed = started

(* ------------------------------------------------------------------ *)
(* C2                                                                 *)
(* ------------------------------------------------------------------ *)
NamesTarget(text) ==
    /\ Includes(text, OrElse(relative(ProcessCwd, config.templateDownloadPath),
                             config.templateDownloadPath))
    /\ Includes(text, <<" already exists. Please choose a different directory.">>)

\* C2: when verifyDirectoryDoesNotExist runs with the target on disk, it logs one error
\* naming the target and the process exits with status 1; nothing runs after an exit, so
\* selectTemplate and the download are never invoked in that run, and a download is
\* invoked only after the check found the target absent.
C2_ExistingTargetStopsRun ==
    /\ [][pc = "verifyDirectoryDoesNotExist" /\ config.templateDownloadPath \in fs
            => /\ pc' = "exited"
               /\ exitCode' = Num(1)
               /\ Len(log') = Len(log) + 1
               /\ Last(log').level = "error"
               /\ NamesTarget(Last(log').text)]_vars
    /\ [][pc = "exited" => UNCHANGED vars]_vars
    /\ [](ExistenceCheckFound(TRUE)
            => /\ pc = "exited"
               /\ ~StepStarted("selectTemplate")
               /\ CallCount("downloadTemplate") = 0)
    /\ [](CallCount("downloadTemplate") > 0 => ExistenceCheckFound(FALSE))

\* the check found an existing target and the process exited
C2_Witness ==
    /\ ExistenceCheckFound(TRUE)
    /\ pc = "exited"
    /\ Last(started) = "verifyDirectoryDoesNotExist"

(* ------------------------------------------------------------------ *)
(* C3                                                                 *)
(* ------------------------------------------------------------------ *)
NothingAfterDownload ==
    /\ ~StepStarted("selectPackageManager")
    /\ CallCount("installDependencies") = 0
    /\ CallCount("x") = 0

\* C3 as claimed: a run whose download threw e ends with the workflow returning Err(e),
\* without a process exit, and without selectPackageManager, installer or git init.
C3_Claimed_DownloadErrorReturned ==
    (Failed("downloadTemplate") /\ ~Running)
        => /\ result = Err(ThrownBy("downloadTemplate"))
           /\ exitCode = Undef
           /\ NothingAfterDownload

\* C3, amended: when the download throws e, downloadTemplateAndHandleErrors logs
\* String(e) as an error and the process exits with status 1 inside that step; the
\* workflow returns no Result, and selectPackageManager, the installer and git init are
\* never invoked.
C3_DownloadErrorExits ==
    Failed("downloadTemplate")
        => /\ pc = "exited"
           /\ exitCode = Num(1)
           /\ result = Undef
           /\ Last(started) = "downloadTemplateAndHandleErrors"
           /\ Last(log) = Logged("error",
                              ReportedAs(ThrownBy("downloadTemplate"), <<"Template download failed">>))
           /\ NothingAfterDownload

\* the download threw an Error after the earlier steps succeeded
C3_Witness ==
    /\ Failed("downloadTemplate")
    /\ ThrownBy("downloadTemplate") = Error(<<"git not found">>)
    /\ StepCompleted("selectTemplate")

(* ------------------------------------------------------------------ *)
(* C4                                                                 *)
(* ------------------------------------------------------------------ *)
NothingAfterInstall ==
    /\ ~StepStarted("initializeGitIfRequested")
    /\ ~StepStarted("displayFinalInstructions")
    /\ CallCount("x") = 0
    /\ TextsAt("log") = <<>>

\* C4 as claimed: a run whose installer threw e ends with the workflow returning Err(e),
\* not with a process exit inside the install step, and without git init or final
\* instructions.
C4_Claimed_InstallErrorReturned ==
    (Failed("installDependencies") /\ ~Running)
        => /\ result = Err(ThrownBy("installDependencies"))
           /\ exitCode = Undef
           /\ NothingAfterInstall

\* C4, amended: when the installer throws e, installDependenciesIfRequested logs
\* String(e) as an error and the process exits with status 1 inside the install step;
\* the workflow returns no Result, and neither git initialization nor the final
\* instructions run.
C4_InstallErrorExits ==
    Failed("installDependencies")
        => /\ pc = "exited"
           /\ exitCode = Num(1)
           /\ result = Undef
           /\ Last(started) = "installDependenciesIfRequested"
           /\ Last(log) = Logged("error",
                              ReportedAs(ThrownBy("installDependencies"),
                                         <<"Dependencies installation failed">>))
           /\ NothingAfterInstall

\* the installer threw an Error after the user confirmed the installation
C4_Witness ==
    /\ Failed("installDependencies")
    /\ ThrownBy("installDependencies") = Error(<<"git not found">>)
    /\ shouldInstall = Bool(TRUE)

(* ------------------------------------------------------------------ *)
(* C5                                                                 *)
(* ------------------------------------------------------------------ *)
GitWarning(thrown) ==
    Logged("warn", <<"Failed to initialize git repository: ">>
                      \o (IF thrown.t = "Error" THEN thrown.message
                          ELSE <<"Git initialization failed">>))

\* C5: once `git init` has failed with e, a warning with e's message is in the log, the
\* process has not exited, the workflow is not stuck, the final instructions follow the
\* warning, and the workflow returns Ok(undefined).
C5_GitFailureIsWarning ==
    Failed("executeGitInit")
        => /\ exitCode = Undef
           /\ pc \in {"displayFinalInstructions", "return", "returned"}
           /\ \E i \in DOMAIN log :
                 /\ log[i] = GitWarning(ThrownBy("executeGitInit"))
                 /\ \A j \in DOMAIN log : log[j].level = "log" => j > i
           /\ (pc \in {"return", "returned"} => FinalInstructionsDisplayed)
           /\ (pc = "returned" => result = Ok(Undef))
           /\ (pc # "returned" => ENABLED Next)

\* git init was requested by argument, failed with Error('git not found'), and the
\* workflow returned
C5_Witness ==
    /\ args.gitInit = Bool(TRUE)
    /\ Failed("executeGitInit")
    /\ ThrownBy("executeGitInit") = Error(<<"git not found">>)
    /\ pc = "returned"
    /\ result = Ok(Undef)

(* ------------------------------------------------------------------ *)
(* C6                                                                 *)
(* ------------------------------------------------------------------ *)
\* C6 as claimed: a run that reached initializeGitIfRequested never exits, and when it
\* ends the final instructions are displayed and the workflow has returned Ok(undefined).
C6_Claimed_GitNeverAborts ==
    StepStarted("initializeGitIfRequested")
        => /\ pc # "exited"
           /\ (pc = "returned" => FinalInstructionsDisplayed /\ result = Ok(Undef))

\* C6, amended: once a run reaches initializeGitIfRequested, only a cancelled git
\* confirmation prompt stops it (the process exits with status 1 and no final
\* instructions are displayed); after every answer to the prompt and every outcome of
\* the git subprocess the workflow is not stuck, displays the final instructions and
\* returns Ok(undefined).
C6_OnlyCancelledGitPromptAborts ==
    StepStarted("initializeGitIfRequested")
        => /\ (pc = "exited" => /\ Failed("promptForGitInitialization")
                                /\ exitCode = Num(1)
                                /\ ~StepStarted("displayFinalInstructions"))
           /\ (Failed("promptForGitInitialization") => pc = "exited")
           /\ (pc = "returned" => FinalInstructionsDisplayed /\ result = Ok(Undef))
           /\ (Running => ENABLED Next)

\* the user asked for git in the prompt, `git init` failed, the workflow returned
C6_Witness ==
    /\ Succeeded("promptForGitInitialization")
    /\ Failed("executeGitInit")
    /\ pc = "returned"
    /\ FinalInstructionsDisplayed

(* ------------------------------------------------------------------ *)
(* C7                                                                 *)
(* ------------------------------------------------------------------ *)
\* the five prompts and the step that awaits each
PromptOwner ==
    [promptForProjectDirectory |-> "getProjectDirectory",
     promptForTemplate |-> "selectTemplate",
     promptForPackageManager |-> "selectPackageManager",
     promptForDependenciesInstallation |-> "confirmDependenciesInstallation",
     promptForGitInitialization |-> "initializeGitIfRequested"]

\* C7: once any of the five prompts has rejected, the process has exited with status 1,
\* and nothing was invoked after that prompt: it is the last collaborator call and the
\* last outcome, and its step is the last one started and never returned.
C7_CancelledPromptExits ==
    \A op \in DOMAIN PromptOwner :
        Failed(op)
            => /\ pc = "exited"
               /\ exitCode = Num(1)
               /\ result = Undef
               /\ Last(outcomes).op = op
               /\ Last(calls).op = "consola.prompt"
               /\ Last(started) = PromptOwner[op]
               /\ ~StepCompleted(PromptOwner[op])

\* the last of the five prompts was cancelled
C7_Witness ==
    /\ Failed("promptForGitInitialization")
    /\ pc = "exited"
    /\ PromptCount(GitPromptMessage) = 1

(* ------------------------------------------------------------------ *)
(* C8                                                                 *)
(* ------------------------------------------------------------------ *)
\* C8: an exited process has written an error message, and that message is the last
\* thing it wrote.
C8_Claimed_ExitAfterErrorMessage ==
    pc = "exited" => (log # <<>> /\ Last(log).level = "error")

(* ------------------------------------------------------------------ *)
(* C9                                                                 *)
(* ------------------------------------------------------------------ *)
PromptMessages ==
    {DirectoryPromptMessage, TemplatePromptMessage, PackageManagerPromptMessage,
     InstallPromptMessage, GitPromptMessage}

ExternalOperations == {"existsSync", "downloadTemplate", "installDependencies", "x"}

\* C9: each of the five prompts and each of the existence check, the download, the
\* installation and the git subprocess is invoked at most once in a run, so a failed
\* operation is never invoked again; no other prompt is issued.
C9_AtMostOnce ==
    /\ \A message \in PromptMessages : PromptCount(message) <= 1
    /\ \A op \in ExternalOperations : CallCount(op) <= 1
    /\ \A i \in DOMAIN calls :
          calls[i].op = "consola.prompt" => calls[i].args[1] \in PromptMessages
    /\ Len(outcomes) <= Len(calls)

\* a complete run in which every operation was invoked, and `git init` failed
C9_Witness ==
    /\ pc = "returned"
    /\ \A message \in PromptMessages : PromptCount(message) = 1
    /\ \A op \in ExternalOperations : CallCount(op) = 1
    /\ Failed("executeGitInit")

(* ------------------------------------------------------------------ *)
(* C10                                                                *)
(* ------------------------------------------------------------------ *)
InstallLine == cyan(selectedPackageManager) \o <<" install">>

DevLine == cyan(selectedPackageManager) \o <<" run dev">>

\* C10: the lines written with consola.log are, in order, the success message, the
\* next-steps title, the cd line, the install line exactly when the user declined the
\* installation, the dev line and the closing message; nothing is written with
\* consola.log before displayFinalInstructions.
C10_InstallLineIffSkipped ==
    LET lines == TextsAt("log")
    IN IF ~StepStarted("displayFinalInstructions")
       THEN lines = <<>>
       ELSE LET declined == AnswerOf("promptForDependenciesInstallation") = Bool(FALSE)
            IN /\ (\E i \in DOMAIN lines : lines[i] = InstallLine) <=> declined
               /\ lines = << <<"\n", "Starter project has been created with the '">>
                                \o template.source \o <<"' template.">>,
                             <<"\n", "Next steps:", "\n">>,
                             <<"cd ">> \o cyan(projectDir) >>
                          \o (IF declined THEN <<InstallLine>> ELSE <<>>)
                          \o << DevLine,
                                <<"\n", "Happy coding! ">>
                                    \o dim(<<"(Press Ctrl+C to stop the dev server)">>) >>

\* the user declined the installation and the install line is the fourth of six lines
C10_Witness ==
    /\ pc = "returned"
    /\ AnswerOf("promptForDependenciesInstallation") = Bool(FALSE)
    /\ Len(TextsAt("log")) = 6
    /\ TextsAt("log")[4] = InstallLine

\* the user confirmed the installation and only five lines are shown
C10_WitnessInstalled ==
    /\ pc = "returned"
    /\ AnswerOf("promptForDependenciesInstallation") = Bool(TRUE)
    /\ Len(TextsAt("log")) = 5
    /\ TextsAt("log")[4] = DevLine

(* ------------------------------------------------------------------ *)
(* C11                                                                *)
(* ------------------------------------------------------------------ *)
\* resolve(args.cwd, <the directory the user typed in the prompt>)
PromptedPath == resolvePath(args.cwd.v, AnswerOf("promptForProjectDirectory"))

\* some collaborator threw, or answered with something a step does not go on with
SomethingWentWrong ==
    \/ \E i \in DOMAIN outcomes : ~outcomes[i].ok
    \/ ExistenceCheckFound(TRUE)
    \/ /\ Succeeded("promptForTemplate")
       /\ ~IsString(AnswerOf("promptForTemplate"))
    \/ /\ Succeeded("promptForDependenciesInstallation")
       /\ ~IsBoolean(AnswerOf("promptForDependenciesInstallation"))

\* C11: in a run with an empty dir argument the directory prompt is invoked exactly once;
\* the download is called with the selected template and resolve(cwd, prompted directory),
\* the installer and `git init` are called with that same path; and unless something went
\* wrong the run does not exit, is not stuck once the existence check has passed, and
\* returns Ok(undefined).
C11_PromptedDirectoryIsTheProjectPath ==
    (args.dir = Str(<<>>) /\ StepStarted("getProjectDirectory"))
        => /\ PromptCount(DirectoryPromptMessage) = 1
           /\ \A i \in DOMAIN calls :
                 /\ calls[i].op = "downloadTemplate"
                       => calls[i].args = <<templateName,
                                            [dir |-> PromptedPath, registry |-> DEFAULT_REGISTRY]>>
                 /\ calls[i].op = "installDependencies"
                       => calls[i].args[1].cwd = PromptedPath
                 /\ calls[i].op = "x"
                       => calls[i].args[2] = << <<"init">>, PromptedPath >>
           /\ (pc = "exited" => SomethingWentWrong)
           /\ (Running /\ StepCompleted("verifyDirectoryDoesNotExist") => ENABLED Next)
           /\ (pc = "returned" => result = Ok(Undef))

\* the directory was prompted, every collaborator succeeded, the dependencies were
\* installed and git was initialised in ./my-project, and the workflow returned
C11_Witness ==
    /\ args.dir = Str(<<>>)
    /\ pc = "returned"
    /\ ~SomethingWentWrong
    /\ PromptedPath = <<"/", "work", "/", "my-project">>
    /\ CallCount("installDependencies") = 1
    /\ CallCount("x") = 1
    /\ result = Ok(Undef)

(* ------------------------------------------------------------------ *)
(* C12                                                                *)
(* ------------------------------------------------------------------ *)
\* the workflow has returned to mainCommand.run
WorkflowReturned == pc \in {"returned", "settled"}

\* C12: whatever a step function throws is caught: the workflow returns Err of the thrown
\* Error itself, or of a new Error('Project creation workflow failed') when the thrown
\* value is not an Error, and calls nothing afterwards; a workflow that returned has
\* returned exactly Ok(undefined) or Err(an Error), and one that has not returned (still
\* running, or the process exited) has no result.
C12_EveryThrowBecomesErr ==
    /\ \A i \in DOMAIN outcomes :
          ~outcomes[i].ok
              => /\ WorkflowReturned
                 /\ i = Len(outcomes)
                 /\ Last(calls).op = outcomes[i].op
                 /\ result = Err(IF InstanceOfError(outcomes[i].value)
                                 THEN outcomes[i].value
                                 ELSE Error(<<"Project creation workflow failed">>))
    /\ WorkflowReturned
          => \/ result = Ok(Undef)
             \/ /\ result # Undef
                /\ ~result.success
                /\ InstanceOfError(result.error)
                /\ ~Last(outcomes).ok
    /\ ~WorkflowReturned => result = Undef

\* selectTemplate threw the string 'boom' and the workflow returned the replacement Error
C12_Witness ==
    /\ WorkflowReturned
    /\ Last(outcomes) = Rejected("selectTemplate", Str(<<"boom">>))
    /\ result = Err(Error(<<"Project creation workflow failed">>))

(* ------------------------------------------------------------------ *)
(* C13                                                                *)
(* ------------------------------------------------------------------ *)
\* C13: when mainCommand.run has ended, it threw if and only if the workflow returned
\* Err, and what it threw is the error inside that Err; so after a rejection of any step
\* function run throws (the rejection's Error itself), and when the rejecting step is
\* initializeGitIfRequested no final instruction was displayed.  A returned workflow
\* always lets run end.
C13_RunThrowsIffErr ==
    /\ runOutcome # Undef
          => /\ pc = "settled"
             /\ runOutcome.threw <=> ~result.success
             /\ runOutcome.threw => runOutcome.value = result.error
             /\ \A step \in StepFunctions :
                   Failed(step)
                       => /\ runOutcome.threw
                          /\ InstanceOfError(ThrownBy(step))
                                => runOutcome.value = ThrownBy(step)
    /\ Failed("initializeGitIfRequested")
          => /\ ~StepStarted("displayFinalInstructions")
             /\ TextsAt("log") = <<>>
    /\ pc = "returned" => ENABLED MainCommandRunSettles
    /\ pc = "settled" => runOutcome # Undef

\* initializeGitIfRequested rejected with Error('git not found'): run threw that error
\* and the final instructions were not displayed
C13_Witness ==
    /\ Failed("initializeGitIfRequested")
    /\ runOutcome = RunThrew(Error(<<"git not found">>))
    /\ StepCompleted("installDependenciesIfRequested")
    /\ TextsAt("log") = <<>>

\* every step function returned and run ended without throwing
C13_WitnessOk ==
    /\ runOutcome = RunReturned
    /\ result = Ok(Undef)
    /\ FinalInstructionsDisplayed

(* ------------------------------------------------------------------ *)
(* C14                                                                *)
(* ------------------------------------------------------------------ *)
\* C14: determineGitInitialization(p) with p a boolean returns Ok(p) and never invokes
\* the prompt; with p undefined it invokes the git confirmation prompt once, and nothing
\* else, and returns Ok(the answer) when the prompt resolves and Err(an Error) when it
\* rejects; the call always returns.
C14_ExplicitDecisionSkipsPrompt ==
    input # Undef /\ input.fn = "determineGitInitialization"
        => /\ IF input.arg # Undef
              THEN /\ calls = <<>>
                   /\ outcomes = <<>>
                   /\ pc = "done" => output = Ok(input.arg)
              ELSE /\ pc # "determineGitInitialization"
                         => /\ Len(calls) = 1
                            /\ PromptCount(GitPromptMessage) = 1
                   /\ pc = "done"
                         => /\ Len(outcomes) = 1
                            /\ outcomes[1].ok => output = Ok(outcomes[1].value)
                            /\ ~outcomes[1].ok
                                  => /\ ~output.success
                                     /\ InstanceOfError(output.error)
                                     /\ InstanceOfError(outcomes[1].value)
                                           => output.error = outcomes[1].value
           /\ pc # "done" => ENABLED FnNext
           /\ pc = "done" <=> output # Undef

\* called with undefined, the user answered no: Ok(false) after one prompt
C14_Witness ==
    /\ input = Apply("determineGitInitialization", Undef)
    /\ PromptCount(GitPromptMessage) = 1
    /\ output = Ok(Bool(FALSE))

\* called with true: Ok(true) and no prompt
C14_WitnessExplicit ==
    /\ input = Apply("determineGitInitialization", Bool(TRUE))
    /\ output = Ok(Bool(TRUE))
    /\ calls = <<>>

(* ------------------------------------------------------------------ *)
(* C16                                                                *)
(* ------------------------------------------------------------------ *)
\* C16: installDependenciesIfRequested(shouldInstall, dir, packageManager) called with
\* false writes only 'Skipping dependency installation.', invokes nothing and returns;
\* called with true or undefined it invokes the installer exactly once, with cwd = dir
\* and the package manager as name and command, and nothing else.
C16_InstallUnlessFalse ==
    (input # Undef /\ input.fn = "installDependenciesIfRequested"
        /\ StepStarted("installDependenciesIfRequested"))
        => IF input.arg.shouldInstall = Bool(FALSE)
           THEN /\ calls = <<>>
                /\ log = <<Logged("info", <<"Skipping dependency installation.">>)>>
                /\ StepCompleted("installDependenciesIfRequested")
                /\ exitCode = Undef
           ELSE /\ calls = << Call("installDependencies",
                                   << [cwd |-> input.arg.dir,
                                       packageManager |-> [name |-> input.arg.packageManager,
                                                           command |-> input.arg.packageManager]] >>) >>
                /\ \A i \in DOMAIN log : log[i].text # <<"Skipping dependency installation.">>

\* called with undefined: the installer ran once and the step returned
C16_Witness ==
    /\ input # Undef
    /\ input.fn = "installDependenciesIfRequested"
    /\ input.arg.shouldInstall = Undef
    /\ CallCount("installDependencies") = 1
    /\ Succeeded("installDependencies")
    /\ StepCompleted("installDependenciesIfRequested")

(* ------------------------------------------------------------------ *)
(* C19                                                                *)
(* ------------------------------------------------------------------ *)
\* undefined, '' or white space only
BlankArg(a) == a = Undef \/ \A i \in DOMAIN a.v : a.v[i] \in {" ", "\t", "\n"}

\* t is s without the white space at its two ends
IsTrimOf(t, s) ==
    /\ t # <<>>
    /\ t[1] \notin {" ", "\t", "\n"}
    /\ t[Len(t)] \notin {" ", "\t", "\n"}
    /\ \E i \in 1..Len(s) :
          /\ SubSeq(s, i, i + Len(t) - 1) = t
          /\ \A j \in 1..(i - 1) : s[j] \in {" ", "\t", "\n"}
          /\ \A j \in (i + Len(t))..Len(s) : s[j] \in {" ", "\t", "\n"}

\* C19: validateDirectoryArg(s) is Err('Directory argument is empty') for undefined, ''
\* and white-space-only strings, and Ok(s.trim()) for every other string; validating the
\* value of an Ok again returns the same Ok.
C19_DirectoryArgTrimmed ==
    (input # Undef /\ input.fn = "validateDirectoryArg" /\ pc = "done")
        => IF BlankArg(input.arg)
           THEN output = Err(<<"Directory argument is empty">>)
           ELSE /\ output.success
                /\ IsTrimOf(output.data, input.arg.v)
                /\ validateDirectoryArg(Str(output.data)) = output

\* ' my\t' validates to 'my'
C19_Witness ==
    /\ input = Apply("validateDirectoryArg", Str(<<" ", "my", "\t">>))
    /\ output = Ok(<<"my">>)

(* ------------------------------------------------------------------ *)
(* C20                                                                *)
(* ------------------------------------------------------------------ *)
\* C20: validatePackageManagerArg(s) is Ok(s) exactly for s one of npm, yarn, pnpm, bun,
\* deno; it is Err('Package manager argument is empty') for undefined and '', and
\* Err('Invalid package manager: ' + r) for every other string r.
C20_PackageManagerArgValidated ==
    (input # Undef /\ input.fn = "validatePackageManagerArg" /\ pc = "done")
        => IF input.arg = Undef \/ input.arg = Str(<<>>)
           THEN output = Err(<<"Package manager argument is empty">>)
           ELSE IF input.arg.v \in {<<"npm">>, <<"yarn">>, <<"pnpm">>, <<"bun">>, <<"deno">>}
                THEN output = Ok(input.arg.v)
                ELSE /\ output = Err(<<"Invalid package manager: ">> \o input.arg.v)
                     /\ Includes(output.error, input.arg.v)

\* 'pip' is rejected with a message that names it
C20_Witness ==
    /\ input = Apply("validatePackageManagerArg", Str(<<"pip">>))
    /\ output = Err(<<"Invalid package manager: ", "pip">>)

(* ------------------------------------------------------------------ *)
(* C15                                                                *)
(* ------------------------------------------------------------------ *)
\* the decision initializeGitIfRequested works with: the parameter, or the prompt's answer
GitDecided(decision) ==
    \/ args.gitInit = Bool(decision)
    \/ /\ args.gitInit = Undef
       /\ Succeeded("promptForGitInitialization")
       /\ AnswerOf("promptForGitInitialization") = Bool(decision)

InitializingGit == Logged("info", <<"Initializing git repository...", "\n">>)

\* C15: the git subprocess is invoked at most once, only on a decision of true (and then
\* always), and the 'Initializing git repository' message is the last thing written when
\* it is invoked; on a decision of false no subprocess is invoked, and the step returns
\* without writing or invoking anything: the log is as it was, with no 'Initializing'
\* message and no warning.
C15_GitSubprocessOnlyOnYes ==
    /\ [](/\ CallCount("x") <= 1
          /\ CallCount("x") = 1 <=> (StepStarted("initializeGitIfRequested") /\ GitDecided(TRUE))
          /\ (StepStarted("initializeGitIfRequested") /\ GitDecided(FALSE))
                => /\ CallCount("x") = 0
                   /\ StepCompleted("initializeGitIfRequested")
                   /\ \A i \in DOMAIN log : log[i] # InitializingGit /\ log[i].level # "warn")
    /\ [][(Len(calls') > Len(calls) /\ Last(calls').op = "x")
            => /\ Len(log') = Len(log) + 1
               /\ Last(log') = InitializingGit
               /\ pc' = "executeGitInit"]_vars
    /\ [][(pc \in {"initializeGitIfRequested", "promptForGitInitialization"}
                /\ pc' = "displayFinalInstructions")
            => /\ log' = log
               /\ calls' = calls]_vars

\* the user answered no to the git confirmation: no subprocess, the workflow returned
C15_Witness ==
    /\ args.gitInit = Undef
    /\ GitDecided(FALSE)
    /\ pc = "returned"
    /\ CallCount("x") = 0

\* git was requested by argument: one subprocess, after the message
C15_WitnessYes ==
    /\ args.gitInit = Bool(TRUE)
    /\ pc = "executeGitInit"
    /\ CallCount("x") = 1
    /\ Last(log) = InitializingGit

(* ------------------------------------------------------------------ *)
(* C17                                                                *)
(* ------------------------------------------------------------------ *)
SupportedArgument ==
    /\ IsString(args.packageManager)
    /\ args.packageManager.v \in {<<"npm">>, <<"yarn">>, <<"pnpm">>, <<"bun">>, <<"deno">>}

\* the options of the package manager prompt, if it was issued
PackageManagerPromptOptions ==
    calls[CHOOSE i \in DOMAIN calls :
              calls[i].op = "consola.prompt" /\ calls[i].args[1] = PackageManagerPromptMessage].args[2]

\* C17: with a supported argument selectPackageManager returns it and never prompts; with
\* an absent, empty or unsupported argument it prompts once, with the detected ambient
\* manager as the initial selection, and what it returns is the prompt's answer: it
\* returns nothing until the prompt has resolved, so the ambient manager is never chosen
\* silently.
C17_AmbientManagerIsOnlyAHint ==
    StepStarted("selectPackageManager")
        => IF SupportedArgument
           THEN /\ PromptCount(PackageManagerPromptMessage) = 0
                /\ StepCompleted("selectPackageManager")
                /\ selectedPackageManager = args.packageManager.v
           ELSE /\ PromptCount(PackageManagerPromptMessage) = 1
                /\ PackageManagerPromptOptions.initial = detectCurrentPackageManager(env)
                /\ IF Succeeded("promptForPackageManager")
                   THEN /\ StepCompleted("selectPackageManager")
                        /\ selectedPackageManager = AnswerOf("promptForPackageManager")
                   ELSE /\ ~StepCompleted("selectPackageManager")
                        /\ selectedPackageManager = <<>>
                        /\ CallCount("installDependencies") = 0

\* run under pnpm with --packageManager pip: the prompt pre-selects pnpm, the user picks
\* npm, and npm is what selectPackageManager returns
C17_Witness ==
    /\ args.packageManager = Str(<<"pip">>)
    /\ detectCurrentPackageManager(env) = Str(<<"pnpm">>)
    /\ StepCompleted("selectPackageManager")
    /\ PackageManagerPromptOptions.initial = Str(<<"pnpm">>)
    /\ AnswerOf("promptForPackageManager") = <<"npm">>
    /\ selectedPackageManager = <<"npm">>

(* ------------------------------------------------------------------ *)
(* C18                                                                *)
(* ------------------------------------------------------------------ *)
\* the options of the install confirmation prompt, if it was issued
InstallPromptOptions ==
    calls[CHOOSE i \in DOMAIN calls :
              calls[i].op = "consola.prompt" /\ calls[i].args[1] = InstallPromptMessage].args[2]

\* C18: every call of confirmDependenciesInstallation issues the install confirmation
\* prompt, once, with the install argument (true, false or undefined) as the prompt's
\* initial value; the step returns only the prompt's answer, and that answer, not the
\* argument, decides whether the installer runs and whether the final instructions show
\* the install line.
C18_InstallPromptAlwaysIssued ==
    StepStarted("confirmDependenciesInstallation")
        => /\ PromptCount(InstallPromptMessage) = 1
           /\ InstallPromptOptions.initial = args.install
           /\ StepCompleted("confirmDependenciesInstallation")
                 => /\ Succeeded("promptForDependenciesInstallation")
                    /\ shouldInstall = AnswerOf("promptForDependenciesInstallation")
           /\ StepStarted("installDependenciesIfRequested")
                 => (CallCount("installDependencies") = 1
                        <=> AnswerOf("promptForDependenciesInstallation") = Bool(TRUE))
           /\ StepStarted("displayFinalInstructions")
                 => ((\E i \in DOMAIN log : log[i] = Logged("log", InstallLine))
                        <=> AnswerOf("promptForDependenciesInstallation") = Bool(FALSE))

\* --install was given, the user answered no: nothing was installed and the final
\* instructions show the install line
C18_Witness ==
    /\ args.install = Bool(TRUE)
    /\ pc = "returned"
    /\ AnswerOf("promptForDependenciesInstallation") = Bool(FALSE)
    /\ CallCount("installDependencies") = 0
    /\ \E i \in DOMAIN log : log[i] = Logged("log", InstallLine)

(* ------------------------------------------------------------------ *)
(* C21                                                                *)
(* ------------------------------------------------------------------ *)
\* the text of s before its first '/', all of s when it has none
BeforeFirstSlash(s) ==
    LET slashes == {i \in DOMAIN s : s[i] = "/"}
    IN IF slashes = {} THEN s
       ELSE SubSeq(s, 1, (CHOOSE i \in slashes : \A j \in slashes : i <= j) - 1)

\* C21: detectCurrentPackageManager returns the text before the first '/' of
\* npm_config_user_agent when that text is one of npm, yarn, pnpm, bun, deno, and
\* undefined in every other case, an absent or empty hint included; so its result is
\* undefined or a supported name.
C21_DetectsOnlySupportedNames ==
    (input # Undef /\ input.fn = "detectCurrentPackageManager" /\ pc = "done")
        => LET hint == input.arg.npm_config_user_agent
               supported == {<<"npm">>, <<"yarn">>, <<"pnpm">>, <<"bun">>, <<"deno">>}
           IN /\ IF hint # Undef /\ BeforeFirstSlash(hint.v) \in supported
                 THEN output = Str(BeforeFirstSlash(hint.v))
                 ELSE output = Undef
              /\ output = Undef \/ output.v \in supported

\* 'pnpm/1.0' is detected as pnpm
C21_Witness ==
    /\ input = Apply("detectCurrentPackageManager",
                     [npm_config_user_agent |-> Str(<<"pnpm", "/", "1.0">>)])
    /\ pc = "done"
    /\ output = Str(<<"pnpm">>)

(* ------------------------------------------------------------------ *)
(* C22                                                                *)
(* ------------------------------------------------------------------ *)
\* C22: validateTemplateArg is Err('Template argument is empty or undefined') for
\* undefined, '' and white-space-only strings, and Ok(the argument as given, with its
\* surrounding white space) for every other string.
C22_TemplateArgNotTrimmed ==
    (input # Undef /\ input.fn = "validateTemplateArg" /\ pc = "done")
        => IF BlankArg(input.arg)
           THEN output = Err(<<"Template argument is empty or undefined">>)
           ELSE output = Ok(input.arg.v)

\* ' custom\t' is accepted as it is, where validateDirectoryArg would trim it
C22_Witness ==
    /\ input = Apply("validateTemplateArg", Str(<<" ", "custom", "\t">>))
    /\ output = Ok(<<" ", "custom", "\t">>)
    /\ validateDirectoryArg(input.arg) = Ok(<<"custom">>)

(* ------------------------------------------------------------------ *)
(* C23                                                                *)
(* ------------------------------------------------------------------ *)
\* C23: with a non-blank argument selectTemplate returns it and never prompts; with an
\* absent, empty or blank argument it issues the template prompt once and returns nothing
\* until the prompt has resolved with a string: it then returns the answer, or the
\* default template name when the answer is the empty string, which is the only way the
\* default is ever chosen.
C23_DefaultOnlyForEmptyAnswer ==
    StepStarted("selectTemplate")
        => IF ~BlankArg(args.template)
           THEN /\ PromptCount(TemplatePromptMessage) = 0
                /\ StepCompleted("selectTemplate")
                /\ templateName = args.template.v
           ELSE /\ PromptCount(TemplatePromptMessage) = 1
                /\ IF Succeeded("promptForTemplate") /\ IsString(AnswerOf("promptForTemplate"))
                   THEN /\ StepCompleted("selectTemplate")
                        /\ templateName = IF AnswerOf("promptForTemplate").v = <<>>
                                          THEN <<"nuxt4">>
                                          ELSE AnswerOf("promptForTemplate").v
                   ELSE /\ ~StepCompleted("selectTemplate")
                        /\ templateName = <<>>
                        /\ CallCount("downloadTemplate") = 0

\* a blank argument, an empty answer: the default template is what gets downloaded
C23_Witness ==
    /\ args.template = Str(<<" ">>)
    /\ Succeeded("promptForTemplate")
    /\ AnswerOf("promptForTemplate") = Str(<<>>)
    /\ templateName = <<"nuxt4">>
    /\ CallCount("downloadTemplate") = 1

(* ------------------------------------------------------------------ *)
(* C24                                                                *)
(* ------------------------------------------------------------------ *)
\* C24: downloadTemplateAndHandleErrors invokes the download once, with the template name
\* and the download path; it returns only after the download resolved, and returns what
\* the download resolved with; when the download throws, the last thing written is the
\* error (an Error as thrown, anything else as Error('Template download failed')), the
\* process exits with status 1, the step never returns and the download is not invoked
\* again.
C24_DownloadResultOrExit ==
    StepStarted("downloadTemplateAndHandleErrors")
        => /\ CallCount("downloadTemplate") = 1
           /\ \A i \in DOMAIN calls :
                 calls[i].op = "downloadTemplate"
                     => calls[i] = Call("downloadTemplate",
                                        <<templateName, [dir |-> config.templateDownloadPath,
                                                         registry |-> DEFAULT_REGISTRY]>>)
           /\ StepCompleted("downloadTemplateAndHandleErrors")
                 => /\ Succeeded("downloadTemplate")
                    /\ template = AnswerOf("downloadTemplate")
           /\ Succeeded("downloadTemplate")
                 => /\ StepCompleted("downloadTemplateAndHandleErrors")
                    /\ \A i \in DOMAIN log : log[i].level # "error"
                          \/ StepStarted("selectPackageManager")
           /\ Failed("downloadTemplate")
                 => /\ ~StepCompleted("downloadTemplateAndHandleErrors")
                    /\ pc = "exited"
                    /\ exitCode = Num(1)
                    /\ Last(outcomes).op = "downloadTemplate"
                    /\ Last(calls).op = "downloadTemplate"
                    /\ Last(log).level = "error"
                    /\ Last(log).text =
                          (IF InstanceOfError(ThrownBy("downloadTemplate"))
                           THEN ErrorToString(ThrownBy("downloadTemplate"))
                           ELSE <<"Error", ": ", "Template download failed">>)
                    /\ Len(TextsAt("error")) = 1

\* the download threw the string 'boom': the replacement error was logged, then exit
C24_Witness ==
    /\ Failed("downloadTemplate")
    /\ ThrownBy("downloadTemplate") = Str(<<"boom">>)
    /\ Last(log) = Logged("error", <<"Error", ": ", "Template download failed">>)
    /\ pc = "exited"

(* ------------------------------------------------------------------ *)
(* C25                                                                *)
(* ------------------------------------------------------------------ *)
\* the composition of chain steps has been evaluated
Chained == input.fn = "chain" /\ pc = "done"

\* what the i-th invocation of a callback gave
InvocationGave(i) == CallFn(calls[i].op, calls[i].args[1])

\* C25: chain applied to a failure returns that failure, whatever the callback, and does
\* not invoke the callback; in a composition of chain steps the callbacks are invoked in
\* order, each on what the one before it produced, no callback is invoked after one
\* returned a failure, and that first failure is what the composition returns.
C25_ChainShortCircuits ==
    Chained
        => /\ ~isOk(input.arg.result)
                 => /\ output = Returned(input.arg.result)
                    /\ calls = <<>>
           /\ isOk(input.arg.result)
                 => /\ Len(calls) >= 1
                    /\ calls[1].args[1] = input.arg.result.data
                    /\ output = InvocationGave(Len(calls))
           /\ Len(calls) <= Len(input.arg.fns)
           /\ \A i \in DOMAIN calls :
                 /\ calls[i].op = input.arg.fns[i]
                 /\ i < Len(calls)
                       => /\ ~InvocationGave(i).threw
                          /\ isOk(InvocationGave(i).value)
                          /\ calls[i + 1].args[1] = InvocationGave(i).value.data
                 /\ ~InvocationGave(i).threw /\ ~isOk(InvocationGave(i).value)
                       => /\ i = Len(calls)
                          /\ output = Returned(Err(InvocationGave(i).value.error))

\* Ok(2) through doubleIfValid, then numberToString: the first step fails with
\* 'too small', the second callback is not invoked
C25_Witness ==
    /\ Chained
    /\ input.arg = [fns |-> <<"doubleIfValid", "numberToString">>, result |-> Ok(Num(2))]
    /\ output = Returned(Err(Str(<<"too small">>)))
    /\ calls = <<Call("doubleIfValid", <<Num(2)>>)>>

\* a failure through a callback that would throw: the failure comes back
C25_WitnessFailureIn ==
    /\ Chained
    /\ input.arg = [fns |-> <<"raise">>, result |-> Err(Str(<<"error">>))]
    /\ output = Returned(Err(Str(<<"error">>)))
    /\ calls = <<>>

(* ------------------------------------------------------------------ *)
(* C26                                                                *)
(* ------------------------------------------------------------------ *)
\* C26: map(identity) and chain(Ok) return a Result of the same variant and payload as
\* the one they are given; map returns every failure as it is, without invoking its
\* callback, and mapErr returns every success as it is, without invoking its callback.
C26_IdentityLaws ==
    pc = "done"
        => /\ input.fn = "map" /\ input.arg.fn = "identity"
                 => output = Returned(input.arg.result)
           /\ input.fn = "chain" /\ input.arg.fns = <<"Ok">>
                 => output = Returned(input.arg.result)
           /\ input.fn = "map" /\ ~isOk(input.arg.result)
                 => /\ output = Returned(input.arg.result)
                    /\ calls = <<>>
           /\ input.fn = "mapErr" /\ isOk(input.arg.result)
                 => /\ output = Returned(input.arg.result)
                    /\ calls = <<>>

\* map of a failure with a callback that rewrites strings: the failure comes back
C26_Witness ==
    /\ pc = "done"
    /\ input = Apply("map", [fn |-> "mapped", result |-> Err(Str(<<"error">>))])
    /\ output = Returned(Err(Str(<<"error">>)))

\* map(identity) of a success invokes identity and wraps its value again
C26_WitnessIdentity ==
    /\ pc = "done"
    /\ input = Apply("map", [fn |-> "identity", result |-> Ok(Num(6))])
    /\ output = Returned(Ok(Num(6)))
    /\ calls = <<Call("identity", <<Num(6)>>)>>

\* mapErr does transform the error of a failure
C26_WitnessMapErr ==
    /\ pc = "done"
    /\ input = Apply("mapErr", [fn |-> "mapped", result |-> Err(Str(<<"error">>))])
    /\ output = Returned(Err(Str(<<"mapped: ", "error">>)))

(* ------------------------------------------------------------------ *)
(* C27                                                                *)
(* ------------------------------------------------------------------ *)
\* C27: unwrap returns the data of a success and throws the stored error of a failure,
\* the very value that was stored; unwrapOr returns the data of a success and the default
\* for a failure, and never throws.
C27_UnwrapAndUnwrapOr ==
    pc = "done"
        => /\ input.fn = "unwrap"
                 => output = (IF input.arg.result.success
                              THEN [threw |-> FALSE, value |-> input.arg.result.data]
                              ELSE [threw |-> TRUE, value |-> input.arg.result.error])
           /\ input.fn = "unwrapOr"
                 => /\ ~output.threw
                    /\ output.value = (IF input.arg.result.success
                                       THEN input.arg.result.data
                                       ELSE input.arg.defaultValue)

\* unwrap of a failure that stores a string throws that string, not an Error
C27_Witness ==
    /\ pc = "done"
    /\ input = Apply("unwrap", [result |-> Err(Str(<<"error">>))])
    /\ output = Threw(Str(<<"error">>))

\* unwrapOr of a failure returns the default
C27_WitnessDefault ==
    /\ pc = "done"
    /\ input = Apply("unwrapOr", [defaultValue |-> Num(2), result |-> Err(Error(<<"test error">>))])
    /\ output = Returned(Num(2))

(* ------------------------------------------------------------------ *)
(* C28                                                                *)
(* ------------------------------------------------------------------ *)
\* what selectPackageManager returned: the supported argument, else the prompt's answer
ReturnedPackageManager ==
    IF SupportedArgument THEN args.packageManager.v
    ELSE AnswerOf("promptForPackageManager")

\* C28: the success message of the final instructions names the source the download
\* resolved with, and the dev line (and the install line, when shown) names the package
\* manager selectPackageManager returned: with an absent or unsupported argument that is
\* the prompt's answer, not the argument; every installer invocation is for the template
\* directory the download reported and for that same package manager.
C28_InstructionsNameSelectedManager ==
    /\ StepStarted("displayFinalInstructions")
          => LET lines == TextsAt("log")
             IN /\ lines[1] = <<"\n", "Starter project has been created with the '">>
                                  \o AnswerOf("downloadTemplate").source \o <<"' template.">>
                /\ lines[Len(lines) - 1] = cyan(ReturnedPackageManager) \o <<" run dev">>
                /\ Len(lines) = 6
                      => lines[4] = cyan(ReturnedPackageManager) \o <<" install">>
                /\ ~SupportedArgument /\ IsString(args.packageManager)
                      => \A i \in DOMAIN lines :
                            /\ lines[i] # cyan(args.packageManager.v) \o <<" run dev">>
                            /\ lines[i] # cyan(args.packageManager.v) \o <<" install">>
    /\ \A i \in DOMAIN calls :
          calls[i].op = "installDependencies"
              => /\ calls[i].args[1].cwd = AnswerOf("downloadTemplate").dir
                 /\ calls[i].args[1].packageManager.name = ReturnedPackageManager
                 /\ calls[i].args[1].packageManager.command = ReturnedPackageManager

\* --packageManager pip: the user picked bun, bun was handed to the installer and the
\* dev line says bun
C28_Witness ==
    /\ pc = "returned"
    /\ args.packageManager = Str(<<"pip">>)
    /\ AnswerOf("promptForPackageManager") = <<"bun">>
    /\ CallCount("installDependencies") = 1
    /\ Len(TextsAt("log")) = 5
    /\ TextsAt("log")[4] = cyan(<<"bun">>) \o <<" run dev">>
    /\ Includes(TextsAt("log")[1], AnswerOf("downloadTemplate").source)

(* ------------------------------------------------------------------ *)
(* C29                                                                *)
(* ------------------------------------------------------------------ *)
\* C29: getProjectDirectory called with a non-blank argument returns the argument without
\* the white space at its ends and never prompts; called with an absent or blank argument
\* it invokes the directory prompt exactly once, returns nothing before the prompt
\* resolved, and what it returns is the prompt's value as it is, be it empty or blank; a
\* rejected prompt ends the process with status 1.
C29_PromptedDirectoryReturnedAsIs ==
    (input # Undef /\ input.fn = "getProjectDirectory" /\ StepStarted("getProjectDirectory"))
        => IF ~BlankArg(input.arg)
           THEN /\ PromptCount(DirectoryPromptMessage) = 0
                /\ calls = <<>>
                /\ StepCompleted("getProjectDirectory")
                /\ IsTrimOf(projectDir, input.arg.v)
           ELSE /\ PromptCount(DirectoryPromptMessage) = 1
                /\ Len(calls) = 1
                /\ Len(outcomes) <= 1
                /\ IF Succeeded("promptForProjectDirectory")
                   THEN /\ StepCompleted("getProjectDirectory")
                        /\ projectDir = AnswerOf("promptForProjectDirectory")
                   ELSE /\ ~StepCompleted("getProjectDirectory")
                        /\ projectDir = <<>>
                /\ Failed("promptForProjectDirectory")
                      => pc = "exited" /\ exitCode = Num(1)

\* a blank argument, and the prompt answered with a single space: the space is returned
C29_Witness ==
    /\ input = Apply("getProjectDirectory", Str(<<" ", "\t">>))
    /\ StepCompleted("getProjectDirectory")
    /\ AnswerOf("promptForProjectDirectory") = <<" ">>
    /\ projectDir = <<" ">>

\* no argument, and the prompt answered with the empty string
C29_WitnessEmpty ==
    /\ input = Apply("getProjectDirectory", Undef)
    /\ StepCompleted("getProjectDirectory")
    /\ AnswerOf("promptForProjectDirectory") = <<>>
    /\ projectDir = <<>>

\* an argument with white space around it is returned trimmed, without a prompt
C29_WitnessArgument ==
    /\ input = Apply("getProjectDirectory", Str(<<" ", "my", "\t">>))
    /\ StepCompleted("getProjectDirectory")
    /\ projectDir = <<"my">>
    /\ calls = <<>>

(* ------------------------------------------------------------------ *)
(* C30                                                                *)
(* ------------------------------------------------------------------ *)
\* the Error promptForTemplate makes of a rejected prompt
TemplateCancellationError ==
    CaughtAsError(ThrownBy("promptForTemplate"), <<"Template selection cancelled">>)

\* selectTemplate ended the process having written `text` with consola.error, and nothing
\* else with consola.error; no download was attempted
ExitedAfterLogging(text) ==
    /\ pc = "exited"
    /\ exitCode = Num(1)
    /\ TextsAt("error") = <<text>>
    /\ Last(log) = Logged("error", text)
    /\ ~StepCompleted("selectTemplate")
    /\ ~StepStarted("downloadTemplateAndHandleErrors")
    /\ CallCount("downloadTemplate") = 0

\* C30 as claimed: a cancelled template prompt has the message of the cancellation error
\* written before the process exits.
C30_Claimed_CancellationMessageLogged ==
    Failed("promptForTemplate")
        => ExitedAfterLogging(TemplateCancellationError.message)

\* C30: when the template prompt resolves to a value that is not a string, selectTemplate
\* writes 'Please specify a template name.' with consola.error, once, and the process
\* exits with status 1; when the prompt is rejected it writes the message of the
\* cancellation error, or 'Template selection cancelled' when that message is empty, and
\* the process exits with status 1; in both cases the text is in the log when the process
\* has exited, selectTemplate does not return and no download is attempted.
C30_TemplatePromptFailureLogged ==
    /\ Succeeded("promptForTemplate") /\ ~IsString(AnswerOf("promptForTemplate"))
          => ExitedAfterLogging(<<"Please specify", " a template name.">>)
    /\ Failed("promptForTemplate")
          => ExitedAfterLogging(IF TemplateCancellationError.message # <<>>
                                THEN TemplateCancellationError.message
                                ELSE <<"Template selection cancelled">>)

\* the prompt was rejected with an Error whose message is empty: the fallback text is
\* what was written
C30_Witness ==
    /\ Failed("promptForTemplate")
    /\ ThrownBy("promptForTemplate") = Error(<<>>)
    /\ ExitedAfterLogging(<<"Template selection cancelled">>)

\* the prompt resolved with undefined
C30_WitnessNotAString ==
    /\ Succeeded("promptForTemplate")
    /\ AnswerOf("promptForTemplate") = Undef
    /\ ExitedAfterLogging(<<"Please specify", " a template name.">>)

\* the prompt was rejected with an Error that has a message: the message was written
C30_WitnessMessage ==
    /\ Failed("promptForTemplate")
    /\ ThrownBy("promptForTemplate") = Error(<<"git not found">>)
    /\ ExitedAfterLogging(<<"git not found">>)

(* ------------------------------------------------------------------ *)
(* C31                                                                *)
(* ------------------------------------------------------------------ *)
InstallValidationMessage == <<"Please specify", " whether to install dependencies.">>

\* the Error promptForDependenciesInstallation makes of a rejected prompt
InstallCancellationError ==
    CaughtAsError(ThrownBy("promptForDependenciesInstallation"),
                  <<"Dependencies installation prompt cancelled">>)

\* confirmDependenciesInstallation ended the process, and the installer was not invoked
ExitedInInstallConfirmation ==
    /\ pc = "exited"
    /\ exitCode = Num(1)
    /\ ~StepCompleted("confirmDependenciesInstallation")
    /\ ~StepStarted("installDependenciesIfRequested")
    /\ CallCount("installDependencies") = 0

C31_WitnessNotABoolean ==
    /\ Succeeded("promptForDependenciesInstallation")
    /\ AnswerOf("promptForDependenciesInstallation") = Str(<<"yes">>)
    /\ Last(log) = Logged("error", InstallValidationMessage)
    /\ pc = "exited"

\* a rejection whose message contains 'Please specify' has its own message written
C31_WitnessRejectionLogged ==
    /\ Failed("promptForDependenciesInstallation")
    /\ TextsAt("error") = << <<"Please specify", " a terminal.">> >>
    /\ pc = "exited"

(* ------------------------------------------------------------------ *)
(* C32                                                                *)
(* ------------------------------------------------------------------ *)
\* the positions in the log of the 'Creating a new project in ...' message
CreationMessages ==
    {i \in DOMAIN log : /\ log[i].level = "info"
                        /\ IsPrefix(<<"Creating a new project in ">>, log[i].text)}

\* C32: nothing is written before getProjectDirectory has returned; as soon as the
\* workflow has gone past displayProjectCreationInfo, the first thing in the log is the
\* 'Creating a new project in ...' message, naming the resolved target relative to the
\* working directory, and it is there once; the existence check is made only with that
\* message already written, so a run that exits because the target exists has written it,
\* followed by the error.
C32_CreationMessageBeforeExistenceCheck ==
    /\ ~StepCompleted("getProjectDirectory") => log = <<>>
    /\ pc = "displayProjectCreationInfo" => log = <<>>
    /\ StepCompleted("getProjectDirectory") /\ pc # "displayProjectCreationInfo"
          => /\ CreationMessages = {1}
             /\ config.templateDownloadPath = resolvePath(args.cwd.v, projectDir)
             /\ log[1].text = <<"Creating a new project in ">>
                                  \o cyan(OrElse(relative(config.cwd, config.templateDownloadPath),
                                                 config.templateDownloadPath))
                                  \o <<".">>
    /\ CallCount("existsSync") > 0 => CreationMessages = {1}
    /\ ExistenceCheckFound(TRUE)
          => /\ pc = "exited"
             /\ Len(log) = 2
             /\ CreationMessages = {1}
             /\ log[2].level = "error"

\* the target exists: the creation message was written, then the error, then the exit
C32_Witness ==
    /\ ExistenceCheckFound(TRUE)
    /\ pc = "exited"
    /\ CreationMessages = {1}
    /\ Len(log) = 2

(* ------------------------------------------------------------------ *)
(* C33                                                                *)
(* ------------------------------------------------------------------ *)
\* C33 as claimed: once selectPackageManager has been called, npm_config_user_agent has
\* been read exactly once, whatever the argument.
C33_Claimed_HintReadOnceWhateverTheArgument ==
    StepStarted("selectPackageManager") => CallCount("process.env") = 1

\* C33: npm_config_user_agent is not read outside selectPackageManager; a call of
\* selectPackageManager with a supported argument does not read it at all, and a call
\* with an absent, empty or unsupported argument reads it exactly once, right before the
\* package manager prompt is issued.
C33_HintReadOnlyBeforePrompt ==
    /\ ~StepStarted("selectPackageManager") => CallCount("process.env") = 0
    /\ StepStarted("selectPackageManager")
          => CallCount("process.env") = (IF SupportedArgument THEN 0 ELSE 1)
    /\ \A i \in DOMAIN calls :
          calls[i].op = "process.env"
              => /\ calls[i].args = <<"npm_config_user_agent">>
                 /\ i < Len(calls)
                 /\ calls[i + 1].op = "consola.prompt"
                 /\ calls[i + 1].args[1] = PackageManagerPromptMessage
    /\ PromptCount(PackageManagerPromptMessage) = CallCount("process.env")

\* --packageManager pnpm with a user agent in the environment: pnpm is returned and the
\* hint was never read
C33_Witness ==
    /\ args.packageManager = Str(<<"pnpm">>)
    /\ env.npm_config_user_agent # Undef
    /\ StepCompleted("selectPackageManager")
    /\ selectedPackageManager = <<"pnpm">>
    /\ CallCount("process.env") = 0

\* no argument: the hint was read once and the prompt followed
C33_WitnessPrompted ==
    /\ args.packageManager = Undef
    /\ StepCompleted("selectPackageManager")
    /\ CallCount("process.env") = 1
    /\ PromptCount(PackageManagerPromptMessage) = 1

(* ------------------------------------------------------------------ *)
(* C34                                                                *)
(* ------------------------------------------------------------------ *)
\* the workflow awaits a collaborator
Blocked == pc \in Collaborators

\* the run is over: the workflow returned, or the process exited
Terminated == pc \in {"returned", "exited"}

\* C34: when every collaborator call is eventually answered, every run eventually
\* terminates, and it terminates in exactly one way: the workflow has returned Ok or Err
\* and the process has not exited, or the process has exited and the workflow has returned
\* nothing; nothing happens after that. While the workflow awaits a collaborator the only
\* thing that can happen is that this collaborator resolves or rejects: until then no step
\* starts.
C34_TerminatesWhenCollaboratorsRespond ==
    /\ <>Terminated
    /\ [](pc = "returned" => /\ result \in {Ok(Undef)} \cup {Err(e) : e \in Thrown}
                             /\ exitCode = Undef)
    /\ [](pc = "exited" => result = Undef /\ exitCode = Num(1))
    /\ [](~Terminated => result = Undef /\ exitCode = Undef)
    /\ [][Terminated => UNCHANGED vars]_vars
    /\ [][Blocked => /\ outcomes' = Append(outcomes, Resolved(pc, outcomes'[Len(outcomes')].value))
                        \/ outcomes' = Append(outcomes, Rejected(pc, outcomes'[Len(outcomes')].value))
                     /\ started' = started]_vars
    /\ [][started' # started => ~Blocked]_vars

\* a complete run: five prompts, the download, the installation and git init were all
\* answered, and the workflow returned Ok
C34_Witness ==
    /\ pc = "returned"
    /\ result = Ok(Undef)
    /\ Len(outcomes) = 9
    /\ exitCode = Undef

\* the download is pending: the workflow is blocked, nothing after it has started
C34_WitnessBlocked ==
    /\ pc = "downloadTemplate"
    /\ Last(started) = "downloadTemplateAndHandleErrors"
    /\ ~StepStarted("selectPackageManager")


(* ------------------------------------------------------------------ *)
(* C35                                                                *)
(* ------------------------------------------------------------------ *)
\* the installation step ended normally: it installed, or it was told not to install
InstallStepDone ==
    /\ StepCompleted("installDependenciesIfRequested")
    /\ \/ shouldInstall = Bool(TRUE) /\ Succeeded("installDependencies")
       \/ shouldInstall = Bool(FALSE) /\ CallCount("installDependencies") = 0

\* the git step ended normally: `git init` ran (it may have failed, with a warning) or
\* git was not asked for
GitStepDone ==
    /\ StepCompleted("initializeGitIfRequested")
    /\ \/ Succeeded("executeGitInit")
       \/ Failed("executeGitInit") /\ Last(TextsAt("warn")) = GitWarning(ThrownBy("executeGitInit")).text
       \/ CallCount("executeGitInit") = 0

\* C35: whenever executeProjectCreationWorkflow has returned Ok(undefined), in that run
\* the existence check found nothing at the target, the template download resolved, the
\* installation step completed (dependencies installed, or installation skipped), the
\* git step completed and the final instructions were displayed: all nine step
\* functions were called, in order, every function called returned, nothing was written at level error
\* and the process was not exited. Ok is never the result of a partial run.
C35_OkOnlyAfterCompleteRun ==
    result = Ok(Undef) =>
        /\ pc = "returned"
        /\ exitCode = Undef
        /\ ExistenceCheckFound(FALSE) /\ ~ExistenceCheckFound(TRUE)
        /\ Succeeded("downloadTemplate") /\ ~Failed("downloadTemplate")
        /\ InstallStepDone /\ ~Failed("installDependencies")
        /\ GitStepDone
        /\ FinalInstructionsDisplayed
        /\ SelectSeq(started, IsNineStep) = NineSteps
        /\ completed = started
        /\ TextsAt("error") = <<>>

\* a run that returned Ok(undefined) after installing and after a failed `git init`
C35_Witness ==
    /\ result = Ok(Undef)
    /\ shouldInstall = Bool(TRUE)
    /\ Succeeded("installDependencies")
    /\ Failed("executeGitInit")

\* a run that returned Ok(undefined) having skipped installation and git
C35_WitnessSkipped ==
    /\ result = Ok(Undef)
    /\ shouldInstall = Bool(FALSE)
    /\ CallCount("executeGitInit") = 0


(* ------------------------------------------------------------------ *)
(* C36                                                                *)
(* ------------------------------------------------------------------ *)
\* the download has just been invoked and is pending
DownloadInvoked == pc = "downloadTemplate" /\ Last(calls).op = "downloadTemplate"

\* C36 (as claimed): at the moment the template download is invoked, the existence
\* check has been made exactly once, before the template was selected, and the target
\* path does not exist, also when another process can create files while the template
\* prompt is pending.
C36_Claimed_TargetAbsentAtDownload ==
    DownloadInvoked =>
        /\ CallCount("existsSync") = 1
        /\ ExistenceCheckFound(FALSE)
        /\ StepCompleted("verifyDirectoryDoesNotExist")
        /\ Last(calls).args[2].dir \notin fs

\* the download was invoked on a path that another process created after the check
C36_RaceLost ==
    /\ DownloadInvoked
    /\ CallCount("existsSync") = 1
    /\ ExistenceCheckFound(FALSE)
    /\ Last(calls).args[2].dir \in fs


(* ------------------------------------------------------------------ *)
(* C37                                                                *)
(* ------------------------------------------------------------------ *)
\* the five package manager names
FivePackageManagers == {<<"npm">>, <<"yarn">>, <<"pnpm">>, <<"bun">>, <<"deno">>}

\* every answer of the package manager prompt is the value of an option it offered
PromptAnsweredWithOfferedOption ==
    \A i \in DOMAIN outcomes :
        outcomes[i].op = "promptForPackageManager" /\ outcomes[i].ok
            => \E j \in DOMAIN PackageManagerPromptOptions.options :
                   PackageManagerPromptOptions.options[j].value = outcomes[i].value

\* C37: provided the package manager prompt answers with one of the options it offered,
\* the package manager selectPackageManager returned, the one named in every installer
\* invocation and the one named in the dev line and the install line of the final
\* instructions are members of {npm, yarn, pnpm, bun, deno}, whatever args.packageManager
\* was: supported, unsupported, empty or absent.
C37_PackageManagerIsOneOfFive ==
    PromptAnsweredWithOfferedOption =>
        /\ StepCompleted("selectPackageManager") => selectedPackageManager \in FivePackageManagers
        /\ \A i \in DOMAIN calls :
              calls[i].op = "installDependencies"
                  => /\ calls[i].args[1].packageManager.name \in FivePackageManagers
                     /\ calls[i].args[1].packageManager.command \in FivePackageManagers
        /\ StepCompleted("displayFinalInstructions")
              => LET lines == TextsAt("log")
                 IN /\ \E pm \in FivePackageManagers :
                          lines[Len(lines) - 1] = cyan(pm) \o <<" run dev">>
                    /\ Len(lines) = 6
                          => \E pm \in FivePackageManagers : lines[4] = cyan(pm) \o <<" install">>

\* --packageManager pip (unsupported): the prompt was answered, the installer ran and the
\* instructions were displayed
C37_Witness ==
    /\ args.packageManager = Str(<<"pip">>)
    /\ Succeeded("promptForPackageManager")
    /\ CallCount("installDependencies") = 1
    /\ StepCompleted("displayFinalInstructions")

\* an empty --packageManager, installation declined: the install line is displayed
C37_WitnessEmpty ==
    /\ args.packageManager = Str(<<>>)
    /\ Succeeded("promptForPackageManager")
    /\ StepCompleted("displayFinalInstructions")
    /\ Len(TextsAt("log")) = 6

\* no --packageManager
C37_WitnessAbsent ==
    /\ args.packageManager = Undef
    /\ CallCount("installDependencies") = 1
    /\ StepCompleted("displayFinalInstructions")

\* a supported --packageManager
C37_WitnessSupported ==
    /\ SupportedArgument
    /\ CallCount("installDependencies") = 1
    /\ StepCompleted("displayFinalInstructions")


(* ------------------------------------------------------------------ *)
(* C38                                                                *)
(* ------------------------------------------------------------------ *)
\* s is empty or made of white space only
IsBlankName(s) == Trim(s) = <<>>

\* the template names handed to downloadTemplate
DownloadedNames == {calls[i].args[1] : i \in {j \in DOMAIN calls : calls[j].op = "downloadTemplate"}}

\* the name is the non-blank template argument as given, or else the prompt's answer,
\* an empty answer replaced by the default template name
NameFromArgumentOrPrompt(name) ==
    IF ~BlankArg(args.template)
    THEN /\ name = args.template.v
         /\ ~Succeeded("promptForTemplate")
    ELSE /\ Succeeded("promptForTemplate")
         /\ IsString(AnswerOf("promptForTemplate"))
         /\ name = IF AnswerOf("promptForTemplate").v = <<>> THEN <<"nuxt4">>
                   ELSE AnswerOf("promptForTemplate").v

\* C38 (as claimed): the template name passed to the download is never empty or
\* whitespace-only: it is the non-blank args.template exactly as given, or the prompt's
\* answer with an empty answer replaced by the default template name.
C38_Claimed_NameNeverBlank ==
    \A name \in DownloadedNames :
        /\ ~IsBlankName(name)
        /\ NameFromArgumentOrPrompt(name)

\* C38 (amended): the template name passed to the download is never empty; it is the
\* non-blank args.template exactly as given (which need not be an option of the menu),
\* or the prompt's answer with only the empty answer replaced by the default template
\* name, so it is whitespace-only exactly when the prompt answered with a
\* whitespace-only string.
C38_NameNeverEmpty ==
    \A name \in DownloadedNames :
        /\ name # <<>>
        /\ NameFromArgumentOrPrompt(name)
        /\ IsBlankName(name) <=> /\ BlankArg(args.template)
                                 /\ AnswerOf("promptForTemplate").v # <<>>
                                 /\ IsBlankName(AnswerOf("promptForTemplate").v)

\* the prompt answered ' ' and the download was invoked with ' '
C38_Witness ==
    /\ DownloadedNames = {<<" ">>}
    /\ Succeeded("promptForTemplate")
    /\ AnswerOf("promptForTemplate") = Str(<<" ">>)

\* the prompt answered '' and the download was invoked with the default name
C38_WitnessDefault ==
    /\ Succeeded("promptForTemplate")
    /\ AnswerOf("promptForTemplate") = Str(<<>>)
    /\ DownloadedNames = {<<"nuxt4">>}

\* --template ' custom', not an option of the menu, was handed to the download as given
C38_WitnessArgument ==
    /\ args.template = Str(<<" ", "custom">>)
    /\ DownloadedNames = {<<" ", "custom">>}

====
